---- MODULE Spec2Model ----
(***************************************************************************)
(* AI Trust Layer: the text -> claims -> citations -> verification ->      *)
(* score pipeline of app/orchestrator.py and the services it calls.        *)
(*                                                                         *)
(* A Python str is modelled as a sequence of one-character strings, so     *)
(* that strip, split, substring search and the regular-expression scans    *)
(* are computed character by character as the code computes them.          *)
(***************************************************************************)
EXTENDS Integers, Sequences, FiniteSets, TLC

VARIABLES
    pc,                     \* position of the request in verify_content / process
    request_text,           \* VerifyRequest.text of the request in flight
    stages,                 \* the pipeline stages that ran for this request, in order
    extracted_claims,       \* orchestrator.process: extracted_claims
    citation_analysis,      \* orchestrator.process: citation_analysis
    claims_with_citations,  \* orchestrator.process: claims_with_citations
    verified_claims,        \* verify_claims: verified_claims (grows one claim at a time)
    trust_score,            \* orchestrator.process: trust_score
    reliability_label,      \* orchestrator.process: reliability_label
    breakdown,              \* orchestrator.process: breakdown
    response,               \* what the endpoint answers
    wiki_pc,                \* position in verify_claims_with_wikipedia / check_claim_against_wikipedia
    wiki_claims,            \* verify_claims_with_wikipedia: claims
    wiki_verified,          \* verify_claims_with_wikipedia: verified_claims
    main_subject,           \* check_claim_against_wikipedia: main_subject
    search_results,         \* check_claim_against_wikipedia: search_results
    summary,                \* check_claim_against_wikipedia: summary
    search_calls,           \* calls of search_wikipedia made for the current claim
    failed_searches,        \* those of them whose HTTP call failed
    summary_calls,          \* calls of get_wikipedia_summary made for the current claim
    returned_summary,       \* what the last of them returned
    rng,                    \* state of the generator behind random.uniform (module random)
    other_request                \* the locals of a second request, while this one runs

pipeline_vars == <<pc, request_text, stages, extracted_claims, citation_analysis,
                   claims_with_citations, verified_claims, trust_score,
                   reliability_label, breakdown, response>>

wiki_vars == <<wiki_pc, wiki_claims, wiki_verified, main_subject, search_results,
               summary, search_calls, failed_searches, summary_calls,
               returned_summary>>

vars == <<pipeline_vars, wiki_vars, rng, other_request>>

None == "None"

(***************************************************************************)
(* Characters and the str methods the code uses.                           *)
(***************************************************************************)
UpperLetters == <<"A","B","C","D","E","F","G","H","I","J","K","L","M","N","O","P","Q","R","S","T","U","V","W","X","Y","Z">>
LowerLetters == <<"a","b","c","d","e","f","g","h","i","j","k","l","m","n","o","p","q","r","s","t","u","v","w","x","y","z">>
Digits == {"0", "1", "2", "3", "4", "5", "6", "7", "8", "9"}
WhiteSpace == {" ", "\t", "\n"}

UpperSet == {UpperLetters[i] : i \in 1..26}
LowerSet == {LowerLetters[i] : i \in 1..26}

IsUpper(c) == c \in UpperSet
IsLower(c) == c \in LowerSet

LowerOf == [c \in UpperSet |-> LowerLetters[CHOOSE i \in 1..26 : UpperLetters[i] = c]]

\* str.lower() on one character
LowerChar(c) == IF c \in UpperSet THEN LowerOf[c] ELSE c

\* str.lower()
Lower(s) == [i \in 1..Len(s) |-> LowerChar(s[i])]

\* s.startswith(p, i): p occurs in s at index i (1-based)
MatchAt(s, p, i) ==
    /\ i >= 1
    /\ i + Len(p) - 1 <= Len(s)
    /\ \A k \in 1..Len(p) : s[i + k - 1] = p[k]

\* `p in s`
Contains(s, p) == \E i \in 1..(Len(s) - Len(p) + 1) : MatchAt(s, p, i)

\* s.find(p) as a 0-based offset, -1 when absent
Find(s, p) ==
    IF Contains(s, p)
    THEN (CHOOSE i \in 1..(Len(s) - Len(p) + 1) :
             /\ MatchAt(s, p, i)
             /\ \A j \in 1..(i - 1) : ~MatchAt(s, p, j)) - 1
    ELSE -1

\* str.strip()
Strip(s) ==
    LET keep == {i \in 1..Len(s) : s[i] \notin WhiteSpace} IN
    IF keep = {} THEN <<>>
    ELSE LET first == CHOOSE i \in keep : \A j \in 1..(i - 1) : s[j] \in WhiteSpace
             last == CHOOSE i \in keep : \A j \in (i + 1)..Len(s) : s[j] \in WhiteSpace
         IN SubSeq(s, first, last)

\* s[:n]
Take(s, n) == SubSeq(s, 1, IF Len(s) < n THEN Len(s) ELSE n)

\* any(m in s for m in markers)
ContainsAny(s, markers) == \E k \in 1..Len(markers) : Contains(s, markers[k])

(***************************************************************************)
(* claim_service.extract_claims                                            *)
(***************************************************************************)
SentenceEnd == {".", "!", "?"}
MinSentenceLen == 10
LongSentenceLen == 30
FallbackLen == 500

opinion_markers ==
    << <<"i"," ","t","h","i","n","k">>, <<"i"," ","b","e","l","i","e","v","e">>, <<"i","n"," ","m","y"," ","o","p","i","n","i","o","n">>, <<"m","a","y","b","e">>, <<"p","e","r","h","a","p","s">> >>

factual_indicators ==
    << <<"i","s">>, <<"a","r","e">>, <<"w","a","s">>, <<"w","e","r","e">>, <<"h","a","s">>, <<"h","a","v","e">>, <<"h","a","d">>, <<"p","e","r","c","e","n","t">>, <<"%">>,
       <<"m","i","l","l","i","o","n">>, <<"b","i","l","l","i","o","n">>, <<"y","e","a","r">>, <<"f","o","u","n","d","e","d">>, <<"l","o","c","a","t","e","d">>, <<"d","i","s","c","o","v","e","r","e","d">>,
       <<"i","n","v","e","n","t","e","d">>, <<"c","r","e","a","t","e","d">>, <<"p","u","b","l","i","s","h","e","d">> >>

\* The end of the whitespace run that starts at i.
RunEnd(t, i) ==
    CHOOSE j \in i..Len(t) :
        /\ \A k \in i..j : t[k] \in WhiteSpace
        /\ (j = Len(t) \/ t[j + 1] \notin WhiteSpace)

\* re.split(r"(?<=[.!?])\s+", t): a separator is a maximal whitespace run
\* that directly follows '.', '!' or '?'.
RECURSIVE SplitFrom(_, _)
SplitFrom(t, start) ==
    LET seps == {i \in (start + 1)..Len(t) :
                    t[i] \in WhiteSpace /\ t[i - 1] \in SentenceEnd} IN
    IF seps = {} THEN << SubSeq(t, start, Len(t)) >>
    ELSE LET i == CHOOSE x \in seps : \A y \in seps : x <= y IN
         << SubSeq(t, start, i - 1) >> \o SplitFrom(t, RunEnd(t, i) + 1)

SplitSentences(t) == SplitFrom(t, 1)

\* The filter without `if sentence.endswith("?"): continue`
KeepSentence_and_questions(sentence) ==
    /\ Len(sentence) >= MinSentenceLen
    /\ ~ContainsAny(Lower(sentence), opinion_markers)
    /\ \/ \E i \in 1..Len(sentence) : sentence[i] \in Digits
       \/ ContainsAny(Lower(sentence), factual_indicators)
       \/ Len(sentence) > LongSentenceLen

\* The filter of the loop body: the sentence is appended to claims
KeepSentence(sentence) ==
    /\ Len(sentence) >= MinSentenceLen
    /\ sentence[Len(sentence)] # "?"
    /\ ~ContainsAny(Lower(sentence), opinion_markers)
    /\ \/ \E i \in 1..Len(sentence) : sentence[i] \in Digits
       \/ ContainsAny(Lower(sentence), factual_indicators)
       \/ Len(sentence) > LongSentenceLen

\* The loop over the sentences, each stripped first
KeptSentences(sentences) ==
    SelectSeq([i \in 1..Len(sentences) |-> Strip(sentences[i])], KeepSentence)

\* "If no claims found but text exists, treat whole text as one claim"
OrWholeText(claims, stripped_text) ==
    IF claims = <<>> THEN << Take(stripped_text, FallbackLen) >> ELSE claims

\* The fallback without the [:500]
OrWholeTextUncut(claims, stripped_text) ==
    IF claims = <<>> THEN << stripped_text >> ELSE claims

\* extract_claims whose fallback claim is the whole text, not cut to 500
extract_claims_uncut(text) ==
    IF Len(text) = 0 \/ Strip(text) = <<>> THEN <<>>
    ELSE OrWholeTextUncut(KeptSentences(SplitSentences(Strip(text))), Strip(text))

extract_claims(text) ==
    IF Len(text) = 0 \/ Strip(text) = <<>> THEN <<>>
    ELSE OrWholeText(KeptSentences(SplitSentences(Strip(text))), Strip(text))

(***************************************************************************)
(* citation_service                                                        *)
(***************************************************************************)
\* t[i], or "" past either end of t
At(t, i) == IF i \in 1..Len(t) THEN t[i] ELSE ""

MinOf(S) == CHOOSE x \in S : \A y \in S : x <= y

\* The last index of the maximal run of characters of `set` starting at i,
\* or 0 when t[i] is not in `set`.
RunOf(t, i, set) ==
    IF At(t, i) \notin set THEN 0
    ELSE CHOOSE j \in i..Len(t) :
            /\ \A k \in i..j : t[k] \in set
            /\ At(t, j + 1) \notin set

\* [^\s<>"']
UrlChar(c) == c # "" /\ c \notin WhiteSpace /\ c \notin {"<", ">", "\"", "'"}

\* [^\s<>"']+ tried at index i: the last index of the run, or 0
UrlRun(t, i) ==
    IF ~UrlChar(At(t, i)) THEN 0
    ELSE CHOOSE j \in i..Len(t) :
            /\ \A k \in i..j : UrlChar(t[k])
            /\ ~UrlChar(At(t, j + 1))

\* url_pattern = r'https?://[^\s<>"\']+|www\.[^\s<>"\']+' tried at index i:
\* the last index of the match, or 0. No two of the three prefixes match at
\* the same index, so the first that matches decides.
UrlMatchEnd(t, i) ==
    IF MatchAt(t, <<"h","t","t","p","s",":","/","/">>, i) THEN UrlRun(t, i + 8)
    ELSE IF MatchAt(t, <<"h","t","t","p",":","/","/">>, i) THEN UrlRun(t, i + 7)
    ELSE IF MatchAt(t, <<"w","w","w",".">>, i) THEN UrlRun(t, i + 4)
    ELSE 0

\* The first ']' after index i closes the bracket, if something is inside
BracketClose(i, close) ==
    IF close = {} THEN 0 ELSE IF MinOf(close) >= i + 2 THEN MinOf(close) ELSE 0

\* bracket_pattern = r"\[([^\]]+)\]" tried at index i
BracketMatchEnd(t, i) ==
    IF At(t, i) # "[" THEN 0
    ELSE BracketClose(i, {j \in (i + 1)..Len(t) : t[j] = "]"})

\* [A-Z][a-z]+ tried at index i
NameEnd(t, i) ==
    IF IsUpper(At(t, i)) /\ IsLower(At(t, i + 1))
    THEN CHOOSE j \in (i + 1)..Len(t) :
            /\ \A k \in (i + 1)..j : IsLower(t[k])
            /\ ~IsLower(At(t, j + 1))
    ELSE 0

\* al\.? tried at index a
AlEnd(t, a) ==
    IF ~MatchAt(t, <<"a","l">>, a) THEN 0 ELSE IF At(t, a + 2) = "." THEN a + 2 ELSE a + 1

\* \s+al\.? after "et", the whitespace run ending at w
EtAlEnd(t, w) == IF w = 0 THEN 0 ELSE AlEnd(t, w + 1)

\* (?:et\s+al\.?|and|&) tried at index i
ConnectorEnd(t, i) ==
    IF MatchAt(t, <<"e","t">>, i) THEN EtAlEnd(t, RunOf(t, i + 2, WhiteSpace))
    ELSE IF MatchAt(t, <<"a","n","d">>, i) THEN i + 2
    ELSE IF At(t, i) = "&" THEN i
    ELSE 0

\* \d{4}[a-z]?\) after the separator run ending at e
YearEnd(t, e) ==
    IF e = 0 THEN 0
    ELSE IF \E k \in 1..4 : At(t, e + k) \notin Digits THEN 0
    ELSE IF At(t, e + 5) = ")" THEN e + 5
    ELSE IF IsLower(At(t, e + 5)) /\ At(t, e + 6) = ")" THEN e + 6
    ELSE 0

\* [\s,]+\d{4}[a-z]?\) tried at index p
AcademicTail(t, p) == YearEnd(t, RunOf(t, p, WhiteSpace \cup {","}))

WhiteSpaceRun(t, i) == RunOf(t, i, WhiteSpace)

\* The next piece of a pattern, tried after a match that ends at e; 0 (no
\* match) when e is 0
ConnectorAfter(t, e) == IF e = 0 THEN 0 ELSE ConnectorEnd(t, e + 1)
WhiteSpaceAfter(t, e) == IF e = 0 THEN 0 ELSE WhiteSpaceRun(t, e + 1)
NameAfter(t, e) == IF e = 0 THEN 0 ELSE NameEnd(t, e + 1)

\* \s+(?:et\s+al\.?|and|&)\s+[A-Z][a-z]+ tried at index p
GroupEnd(t, p) ==
    NameAfter(t, WhiteSpaceAfter(t, ConnectorAfter(t, WhiteSpaceRun(t, p))))

Either(a, b) == IF a > 0 THEN a ELSE b

\* (?:\s+(?:et\s+al\.?|and|&)\s+[A-Z][a-z]+)* and then the tail, from index
\* p: one more group if the rest then matches, else the tail here.
RECURSIVE AcademicRest(_, _)
RestAfter(t, e) == IF e = 0 THEN 0 ELSE AcademicRest(t, e + 1)
AcademicRest(t, p) == Either(RestAfter(t, GroupEnd(t, p)), AcademicTail(t, p))

\* paren_pattern tried at index i
AcademicMatchEnd(t, i) ==
    IF At(t, i) = "(" THEN RestAfter(t, NameEnd(t, i + 1)) ELSE 0

\* Where each pattern matches when tried at each index of the text
UrlEnds(t) == [i \in 1..Len(t) |-> UrlMatchEnd(t, i)]
BracketEnds(t) == [i \in 1..Len(t) |-> BracketMatchEnd(t, i)]
AcademicEnds(t) == [i \in 1..Len(t) |-> AcademicMatchEnd(t, i)]

\* re.findall: the leftmost match, then the leftmost match after its end,
\* and so on. Each match is the pair <<first, last>> of its span.
RECURSIVE SpansFrom(_, _)
SpanAndRest(ends, i) == << <<i, ends[i]>> >> \o SpansFrom(ends, ends[i] + 1)
FirstSpan(ends, starts) == IF starts = {} THEN <<>> ELSE SpanAndRest(ends, MinOf(starts))
SpansFrom(ends, from) == FirstSpan(ends, {i \in from..Len(ends) : ends[i] > 0})

FindAll(ends) == SpansFrom(ends, 1)

\* "Skip if it looks like a URL or code": the bracket's inner text
LooksLikeUrl(inner) ==
    ContainsAny(Lower(inner), << <<"h","t","t","p">>, <<"w","w","w">>, <<":","/","/">> >>)

CitationOf(t, cited, type) ==
    [text |-> cited, type |-> type, position |-> Find(t, cited)]

Citations(t, spans, type) ==
    [i \in 1..Len(spans) |-> CitationOf(t, SubSeq(t, spans[i][1], spans[i][2]), type)]

References(t, spans) ==
    Citations(t, SelectSeq(spans,
                  LAMBDA sp : ~LooksLikeUrl(SubSeq(t, sp[1] + 1, sp[2] - 1))),
              "reference")

extract_citations(text) ==
    Citations(text, FindAll(UrlEnds(text)), "url")
        \o References(text, FindAll(BracketEnds(text)))
        \o Citations(text, FindAll(AcademicEnds(text)), "academic")

trusted_domains ==
    << <<"w","i","k","i","p","e","d","i","a",".","o","r","g">>, <<"n","a","t","u","r","e",".","c","o","m">>, <<"s","c","i","e","n","c","e",".","o","r","g">>, <<"a","r","x","i","v",".","o","r","g">>, <<"g","i","t","h","u","b",".","c","o","m">>,
       <<"g","o","v">>, <<".","e","d","u">>, <<"r","e","u","t","e","r","s",".","c","o","m">>, <<"b","b","c",".","c","o","m">>, <<"n","y","t","i","m","e","s",".","c","o","m">>, <<"w","h","o",".","i","n","t">>,
       <<"c","d","c",".","g","o","v">>, <<"n","i","h",".","g","o","v">> >>

MinUrlLen == 10

mock_url_check(url) ==
    \/ ContainsAny(Lower(url), trusted_domains)
    \/ (MatchAt(url, <<"h","t","t","p">>, 1) /\ Contains(url, <<".">>) /\ Len(url) > MinUrlLen)

ValidityReason(type, is_valid) ==
    IF type = "url"
    THEN (IF is_valid THEN "URL structure appears valid"
          ELSE "URL appears malformed or suspicious")
    ELSE IF type = "academic" THEN "Academic citation format recognized"
    ELSE IF type = "reference" THEN "Reference marker found"
    ELSE "Unknown citation type"

\* {**citation, is_valid, confidence, reason}; confidences are kept in
\* hundredths: 0.8 is 80.
Validated(citation, is_valid) ==
    [text |-> citation.text,
     type |-> citation.type,
     position |-> citation.position,
     is_valid |-> is_valid,
     confidence |-> IF is_valid THEN 80 ELSE 30,
     reason |-> ValidityReason(citation.type, is_valid)]

check_citation_validity(citation) ==
    Validated(citation,
              IF citation.type = "url" THEN mock_url_check(citation.text)
              ELSE citation.type \in {"academic", "reference"})

\* The score as the plain percentage of valid citations
citation_score_percent(valid_count, total_count) ==
    IF total_count = 0 THEN 50 ELSE (100 * valid_count) \div total_count

\* int(40 + (valid_count / total_count) * 60); the float product truncates
\* to the integer quotient for every pair of counts up to 200.
citation_score_of(valid_count, total_count) ==
    IF total_count = 0 THEN 50
    ELSE (40 * total_count + 60 * valid_count) \div total_count

\* validity_ratio >= 0.8 and >= 0.5, as integer comparisons
quality_label_of(valid_count, total_count) ==
    IF total_count = 0 THEN "NO_CITATIONS"
    ELSE IF 10 * valid_count >= 8 * total_count THEN "WELL_CITED"
    ELSE IF 10 * valid_count >= 5 * total_count THEN "PARTIALLY_CITED"
    ELSE "POORLY_CITED"

CitationAnalysis(validated_citations, total_count, valid_count) ==
    [citations |-> validated_citations,
     citation_count |-> total_count,
     valid_count |-> valid_count,
     citation_score |-> citation_score_of(valid_count, total_count),
     quality_label |-> quality_label_of(valid_count, total_count)]

Analysis(validated_citations) ==
    CitationAnalysis(validated_citations,
        Len(validated_citations),
        Cardinality({i \in 1..Len(validated_citations) : validated_citations[i].is_valid}))

ValidateAll(citations) ==
    [i \in 1..Len(citations) |-> check_citation_validity(citations[i])]

analyze_citations(text) == Analysis(ValidateAll(extract_citations(text)))

(***************************************************************************)
(* verification_service (the static-table strategy)                        *)
(***************************************************************************)
\* MOCK_KNOWLEDGE_BASE keys, in insertion order
MOCK_KNOWLEDGE_BASE ==
    << <<"e","a","r","t","h">>, <<"s","u","n">>, <<"w","a","t","e","r">>, <<"m","o","o","n">>, <<"p","y","t","h","o","n">>, <<"g","r","a","v","i","t","y">> >>

CONTRADICTION_KEYWORDS ==
    << <<"n","e","v","e","r">>, <<"i","m","p","o","s","s","i","b","l","e">>, <<"f","a","k","e">>, <<"m","y","t","h">>, <<"f","a","l","s","e">> >>

\* The first element of `list` that occurs in s: the loop returns at the
\* first hit
FirstIn(s, list) ==
    list[CHOOSE k \in 1..Len(list) :
            /\ Contains(s, list[k])
            /\ \A j \in 1..(k - 1) : ~Contains(s, list[j])]

Contradicted(keyword) ==
    [status |-> "CONTRADICTED", low |-> 60, high |-> 90,
     reason |-> <<"Claim contains potentially misleading language", keyword>>]

Verified(key) ==
    [status |-> "VERIFIED", low |-> 75, high |-> 95,
     reason |-> <<"Claim aligns with known fact", key>>]

Unknown ==
    [status |-> "UNKNOWN", low |-> 30, high |-> 50,
     reason |-> <<"Insufficient data to verify this claim">>]

\* verify_single_claim with the two loops swapped: the fact table first
verify_single_claim_facts_first(claim_text) ==
    IF ContainsAny(Lower(claim_text), MOCK_KNOWLEDGE_BASE)
    THEN Verified(FirstIn(Lower(claim_text), MOCK_KNOWLEDGE_BASE))
    ELSE IF ContainsAny(Lower(claim_text), CONTRADICTION_KEYWORDS)
    THEN Contradicted(FirstIn(Lower(claim_text), CONTRADICTION_KEYWORDS))
    ELSE Unknown

\* verify_single_claim without the random draw: the status, the reason and
\* the range random.uniform draws the confidence from (in hundredths)
verify_single_claim(claim_text) ==
    IF ContainsAny(Lower(claim_text), CONTRADICTION_KEYWORDS)
    THEN Contradicted(FirstIn(Lower(claim_text), CONTRADICTION_KEYWORDS))
    ELSE IF ContainsAny(Lower(claim_text), MOCK_KNOWLEDGE_BASE)
    THEN Verified(FirstIn(Lower(claim_text), MOCK_KNOWLEDGE_BASE))
    ELSE Unknown

\* The values of round(random.uniform(low, high), 2) the model draws:
\* both ends of the range.
\* The states of the generator: each call of random.uniform returns a value
\* that the state decides and moves the generator to its next state.  Two
\* states stand for them all, one yielding the low end of a range and one
\* the high end.
RngStates == {0, 1}
Advanced(state) == 1 - state

\* random.uniform(low, high) in the given state of the generator
uniform(state, low, high) == IF state = 0 THEN low ELSE high

\* The dict verify_claims builds for one claim
VerifiedClaim(claim, verification, confidence) ==
    [text |-> claim.text,
     index |-> claim.index,
     status |-> verification.status,
     confidence |-> confidence,
     reason |-> verification.reason,
     has_citation |-> claim.has_citation,
     citation_valid |-> claim.citation_valid]

(***************************************************************************)
(* scoring                                                                 *)
(***************************************************************************)
ClaimStatus == {"VERIFIED", "CONTRADICTED", "UNKNOWN"}

\* claim.get("status", "UNKNOWN")
StatusOf(claim) == IF "status" \in DOMAIN claim THEN claim.status ELSE "UNKNOWN"

\* STATUS_WEIGHTS.get(status, 50)
StatusWeight(status) ==
    IF status = "VERIFIED" THEN 100
    ELSE IF status = "UNKNOWN" THEN 50
    ELSE IF status = "CONTRADICTED" THEN 0
    ELSE 50

RECURSIVE TotalScore(_)
TotalScore(claims) ==
    IF claims = <<>> THEN 0
    ELSE StatusWeight(StatusOf(Head(claims))) + TotalScore(Tail(claims))

\* calculate_trust_score returning the sum, not the average
calculate_trust_score_sum(claims) ==
    IF Len(claims) = 0 THEN 50 ELSE TotalScore(claims)

\* calculate_trust_score rounding the average up
calculate_trust_score_ceil(claims) ==
    IF Len(claims) = 0 THEN 50
    ELSE (TotalScore(claims) + Len(claims) - 1) \div Len(claims)

\* The average of the weights with each claim counted by its confidence
\* claim.get("confidence", 1.0), in hundredths
ConfidenceOf(claim) ==
    IF "confidence" \in DOMAIN claim THEN claim.confidence ELSE 100

RECURSIVE WeightedScore(_)
WeightedScore(claims) ==
    IF claims = <<>> THEN 0
    ELSE StatusWeight(StatusOf(Head(claims))) * ConfidenceOf(Head(claims))
             + WeightedScore(Tail(claims))

RECURSIVE TotalConfidence(_)
TotalConfidence(claims) ==
    IF claims = <<>> THEN 0
    ELSE ConfidenceOf(Head(claims)) + TotalConfidence(Tail(claims))

calculate_trust_score_weighted(claims) ==
    IF claims = <<>> \/ TotalConfidence(claims) = 0 THEN 50
    ELSE WeightedScore(claims) \div TotalConfidence(claims)

calculate_trust_score(claims) ==
    IF Len(claims) = 0 THEN 50
    ELSE TotalScore(claims) \div Len(claims)

\* How many claims of the list have one of the statuses
CountWhere(claims, statuses) ==
    Cardinality({i \in 1..Len(claims) : StatusOf(claims[i]) \in statuses})

\* get_score_breakdown with the CONTRADICTED branch counting nothing
get_score_breakdown_skipping(claims) ==
    [verified_count |-> CountWhere(claims, {"VERIFIED"}),
     contradicted_count |-> 0,
     unknown_count |-> Len(claims) - CountWhere(claims, {"VERIFIED", "CONTRADICTED"}),
     total_claims |-> Len(claims)]

\* if VERIFIED ... elif CONTRADICTED ... else unknown
get_score_breakdown(claims) ==
    [verified_count |-> CountWhere(claims, {"VERIFIED"}),
     contradicted_count |-> CountWhere(claims, {"CONTRADICTED"}),
     unknown_count |-> Len(claims) - CountWhere(claims, {"VERIFIED", "CONTRADICTED"}),
     total_claims |-> Len(claims)]

(***************************************************************************)
(* orchestrator.TrustOrchestrator                                          *)
(***************************************************************************)
\* Optional[bool] as a string, so that None compares with the booleans
PyBool(b) == IF b THEN "True" ELSE "False"

build_citation_map(analysis) ==
    [citations |-> analysis.citations,
     has_citations |-> analysis.citation_count > 0,
     has_valid |-> analysis.valid_count > 0,
     citation_score |-> analysis.citation_score]

citation_markers ==
    << <<"[">>, <<"(">>, <<"h","t","t","p">>, <<"w","w","w">>, <<"a","c","c","o","r","d","i","n","g"," ","t","o">>, <<"s","o","u","r","c","e",":">> >>

\* _claim_has_citation without its first test: the markers alone decide
claim_has_citation_by_markers(claim_text, citation_map) ==
    ContainsAny(Lower(claim_text), citation_markers)

claim_has_citation(claim_text, citation_map) ==
    IF ~citation_map.has_citations THEN FALSE
    ELSE ContainsAny(Lower(claim_text), citation_markers)

\* Step 3 of process: the claim dict built for extracted_claims[idx + 1]
ClaimWithCitation(claim_text, idx, citation_map) ==
    LET has_citation == claim_has_citation(claim_text, citation_map) IN
    [text |-> claim_text,
     index |-> idx,
     has_citation |-> has_citation,
     citation_valid |-> IF has_citation THEN PyBool(citation_map.has_valid) ELSE None]

\* _get_reliability_label with the MOSTLY_RELIABLE band starting at 70
get_reliability_label_70(score) ==
    IF score >= 80 THEN "HIGHLY_RELIABLE"
    ELSE IF score >= 70 THEN "MOSTLY_RELIABLE"
    ELSE IF score >= 40 THEN "QUESTIONABLE"
    ELSE "UNRELIABLE"

get_reliability_label(score) ==
    IF score >= 80 THEN "HIGHLY_RELIABLE"
    ELSE IF score >= 60 THEN "MOSTLY_RELIABLE"
    ELSE IF score >= 40 THEN "QUESTIONABLE"
    ELSE "UNRELIABLE"

\* ClaimResult(...) for one verified claim
ClaimResult(claim) ==
    [claim_text |-> claim.text,
     status |-> StatusOf(claim),
     reason |-> claim.reason,
     confidence |-> claim.confidence,
     has_citation |-> claim.has_citation]

\* _build_claim_results listing the claims last to first
build_claim_results_reversed(claims) ==
    [i \in 1..Len(claims) |-> ClaimResult(claims[Len(claims) + 1 - i])]

build_claim_results(claims) == [i \in 1..Len(claims) |-> ClaimResult(claims[i])]

\* What makes _build_claim_results or the VerifyResponse constructor raise:
\* ClaimStatus(status_str) on an unknown status, and the Field limits
\* (ge/le) of schemas.ClaimResult and schemas.VerifyResponse.
ResponseRaises(score, counts, claims) ==
    \/ \E i \in 1..Len(claims) : StatusOf(claims[i]) \notin ClaimStatus
    \/ \E i \in 1..Len(claims) : claims[i].confidence < 0 \/ claims[i].confidence > 100
    \/ score < 0 \/ score > 100
    \/ counts.total_claims < 0 \/ counts.verified_count < 0
    \/ counts.contradicted_count < 0 \/ counts.unknown_count < 0

\* The first claim of the list whose status is no ClaimStatus
FirstInvalid(claims) ==
    CHOOSE i \in 1..Len(claims) :
        /\ StatusOf(claims[i]) \notin ClaimStatus
        /\ \A j \in 1..(i - 1) : StatusOf(claims[j]) \in ClaimStatus

\* The exception process_text raises when ResponseRaises: the ValueError of
\* ClaimStatus(status_str), else pydantic's ValidationError
RaisedException(score, counts, claims) ==
    IF \E i \in 1..Len(claims) : StatusOf(claims[i]) \notin ClaimStatus
    THEN [type |-> "ValueError",
          message |-> << "'", StatusOf(claims[FirstInvalid(claims)]),
                         "' is not a valid ClaimStatus" >>]
    ELSE [type |-> "ValidationError", message |-> << "validation error" >>]

\* HTTPException(status_code=500,
\*               detail=f"An error occurred during verification: {str(e)}")
InternalError(exception) ==
    [status |-> 500,
     detail |-> << "An error occurred during verification: " >> \o exception.message]

VerifyResponse(score, label, counts, claims) ==
    [trust_score |-> score,
     reliability_label |-> label,
     total_claims |-> counts.total_claims,
     verified_count |-> counts.verified_count,
     contradicted_count |-> counts.contradicted_count,
     unknown_count |-> counts.unknown_count,
     claims |-> build_claim_results(claims)]

(***************************************************************************)
(* main.verify_content and schemas.VerifyRequest                           *)
(***************************************************************************)
MinTextLen == 1
MaxTextLen == 10000

\* Field(min_length=1, max_length=10000): the request never reaches the handler
SchemaRejects(text) == Len(text) < MinTextLen \/ Len(text) > MaxTextLen

\* The handler's check without the strip(): `if not request.text`
HandlerRejectsNoStrip(text) == Len(text) = 0

\* if not request.text or not request.text.strip(): raise HTTPException(400)
HandlerRejects(text) == Len(text) = 0 \/ Strip(text) = <<>>

NoResponse == [status |-> 0]

(***************************************************************************)
(* wikipedia_service (the knowledge-lookup strategy)                       *)
(***************************************************************************)
\* stop_words of extract_main_subject
subject_stop_words ==
    { <<"t","h","e">>, <<"a">>, <<"a","n">>, <<"i","s">>, <<"a","r","e">>, <<"w","a","s">>, <<"w","e","r","e">>, <<"b","e">>, <<"b","e","e","n">>, <<"b","e","i","n","g">>,
      <<"h","a","v","e">>, <<"h","a","s">>, <<"h","a","d">>, <<"d","o">>, <<"d","o","e","s">>, <<"d","i","d">>, <<"w","i","l","l">>, <<"w","o","u","l","d">>, <<"c","o","u","l","d">>,
      <<"s","h","o","u","l","d">>, <<"m","a","y">>, <<"m","i","g","h","t">>, <<"m","u","s","t">>, <<"s","h","a","l","l">>, <<"c","a","n">>, <<"t","o">>, <<"o","f">>, <<"i","n">>,
      <<"f","o","r">>, <<"o","n">>, <<"w","i","t","h">>, <<"a","t">>, <<"b","y">>, <<"f","r","o","m">>, <<"a","s">>, <<"i","n","t","o">>, <<"t","h","r","o","u","g","h">>,
      <<"d","u","r","i","n","g">>, <<"b","e","f","o","r","e">>, <<"a","f","t","e","r">>, <<"a","b","o","v","e">>, <<"b","e","l","o","w">>, <<"b","e","t","w","e","e","n">>, <<"a","n","d">>,
      <<"b","u","t">>, <<"o","r">>, <<"n","o","t">>, <<"n","o">>, <<"y","e","s">>, <<"t","h","i","s">>, <<"t","h","a","t">>, <<"t","h","e","s","e">>, <<"t","h","o","s","e">>,
      <<"i","t">>, <<"i","t","s">>, <<"h","i","s">>, <<"h","e","r">>, <<"t","h","e","i","r">>, <<"o","u","r">>, <<"m","y">>, <<"y","o","u","r">>, <<"w","h","o">>,
      <<"w","h","i","c","h">>, <<"w","h","a","t">>, <<"w","h","e","r","e">>, <<"w","h","e","n">>, <<"w","h","y">>, <<"h","o","w">>, <<"a","l","l">>, <<"e","a","c","h">>,
      <<"e","v","e","r","y">>, <<"b","o","t","h">>, <<"f","e","w">>, <<"m","o","r","e">>, <<"m","o","s","t">>, <<"o","t","h","e","r">>, <<"s","o","m","e">>, <<"s","u","c","h">>,
      <<"o","n","l","y">>, <<"o","w","n">>, <<"s","a","m","e">>, <<"s","o">>, <<"t","h","a","n">>, <<"t","o","o">>, <<"v","e","r","y">>, <<"j","u","s","t">>, <<"a","l","s","o">>,
      <<"b","u","i","l","t">>, <<"m","a","d","e">>, <<"c","r","e","a","t","e","d">>, <<"l","o","c","a","t","e","d">>, <<"f","o","u","n","d">>, <<"d","i","s","c","o","v","e","r","e","d">>,
      <<"i","n","v","e","n","t","e","d">>, <<"d","e","v","e","l","o","p","e","d">>, <<"k","n","o","w","n">>, <<"c","a","l","l","e","d">>, <<"n","a","m","e","d">>, <<"m","e","m","o","r","y">>,
      <<"h","o","n","o","r">>, <<"w","i","f","e">>, <<"h","u","s","b","a","n","d">>, <<"s","o","n">>, <<"d","a","u","g","h","t","e","r">>, <<"f","a","t","h","e","r">>, <<"m","o","t","h","e","r">> }

\* stop_words of extract_verification_terms
term_stop_words ==
    { <<"t","h","e">>, <<"a">>, <<"a","n">>, <<"i","s">>, <<"a","r","e">>, <<"w","a","s">>, <<"w","e","r","e">>, <<"b","e">>, <<"b","e","e","n">>, <<"b","e","i","n","g">>,
      <<"h","a","v","e">>, <<"h","a","s">>, <<"h","a","d">>, <<"d","o">>, <<"d","o","e","s">>, <<"d","i","d">>, <<"w","i","l","l">>, <<"w","o","u","l","d">>, <<"c","o","u","l","d">>,
      <<"s","h","o","u","l","d">>, <<"t","o">>, <<"o","f">>, <<"i","n">>, <<"f","o","r">>, <<"o","n">>, <<"w","i","t","h">>, <<"a","t">>, <<"b","y">>, <<"f","r","o","m">>,
      <<"a","n","d">>, <<"b","u","t">>, <<"o","r">>, <<"n","o","t">>, <<"t","h","i","s">>, <<"t","h","a","t">>, <<"i","t">>, <<"i","t","s">>, <<"h","i","s">>, <<"h","e","r">> }

Letters == UpperSet \cup LowerSet

\* \w
IsWordChar(c) == c \in Letters \/ c \in Digits \/ c = "_"

\* \b before index i and after index e, next to a word character
BoundaryBefore(t, i) == ~IsWordChar(At(t, i - 1))
BoundaryAfter(t, e) == ~IsWordChar(At(t, e + 1))

AtBoundary(t, e) == IF e > 0 /\ BoundaryAfter(t, e) THEN e ELSE 0

\* \s+[A-Z][a-z]+ tried at index p
NextNameEnd(t, p) == NameAfter(t, WhiteSpaceRun(t, p))

\* (?:\s+[A-Z][a-z]+)*\b after a name that ends at e: as many more names as
\* follow, given up from the right until the end is a word boundary.
RECURSIVE NameChain(_, _)
LongerChain(t, n) == IF n = 0 THEN 0 ELSE NameChain(t, n)
NameChain(t, e) == Either(LongerChain(t, NextNameEnd(t, e + 1)), AtBoundary(t, e))

\* r"\b([A-Z][a-z]+(?:\s+[A-Z][a-z]+)*)\b" tried at index i
ProperNounMatchEnd(t, i) ==
    IF BoundaryBefore(t, i) THEN LongerChain(t, NameEnd(t, i)) ELSE 0

\* r"\b[A-Za-z]+\b" tried at index i
WordMatchEnd(t, i) ==
    IF BoundaryBefore(t, i) THEN AtBoundary(t, RunOf(t, i, Letters)) ELSE 0

\* r"\b(\d{4}|\d+)\b" tried at index i: either way the whole run of digits
NumberMatchEnd(t, i) ==
    IF BoundaryBefore(t, i) THEN AtBoundary(t, RunOf(t, i, Digits)) ELSE 0

Matched(t, spans) == [i \in 1..Len(spans) |-> SubSeq(t, spans[i][1], spans[i][2])]

ProperNouns(t) == Matched(t, FindAll([i \in 1..Len(t) |-> ProperNounMatchEnd(t, i)]))
Words(t) == Matched(t, FindAll([i \in 1..Len(t) |-> WordMatchEnd(t, i)]))
Numbers(t) == Matched(t, FindAll([i \in 1..Len(t) |-> NumberMatchEnd(t, i)]))

MinWordLen == 3
SubjectFallbackLen == 50

\* [w for w in words if w.lower() not in stop_words and len(w) > 3]
Significant(words, stop_words) ==
    SelectSeq(words, LAMBDA w : Lower(w) \notin stop_words /\ Len(w) > MinWordLen)

\* " ".join(significant[:2])
JoinFirstTwo(significant) ==
    IF Len(significant) = 1 THEN significant[1]
    ELSE significant[1] \o <<" ">> \o significant[2]

SubjectFrom(claim, proper_nouns, significant) ==
    IF proper_nouns # <<>> THEN proper_nouns[1]
    ELSE IF significant # <<>> THEN JoinFirstTwo(significant)
    ELSE Take(claim, SubjectFallbackLen)

\* A run with its leading "The " taken off
WithoutArticle(proper_noun) ==
    IF MatchAt(proper_noun, <<"T","h","e"," ">>, 1)
    THEN SubSeq(proper_noun, 5, Len(proper_noun)) ELSE proper_noun

\* extract_main_subject dropping a sentence-initial "The" from the run
extract_main_subject_without_article(claim) ==
    WithoutArticle(SubjectFrom(claim,
        SelectSeq(ProperNouns(claim), LAMBDA pn : Lower(pn) \notin subject_stop_words),
        Significant(Words(claim), subject_stop_words)))

extract_main_subject(claim) ==
    SubjectFrom(claim,
        SelectSeq(ProperNouns(claim), LAMBDA pn : Lower(pn) \notin subject_stop_words),
        Significant(Words(claim), subject_stop_words))

\* "Remove duplicates while preserving order", case-insensitively
RECURSIVE Unique(_, _)
Unique(terms, seen) ==
    IF terms = <<>> THEN <<>>
    ELSE IF Lower(Head(terms)) \in seen THEN Unique(Tail(terms), seen)
    ELSE << Head(terms) >> \o Unique(Tail(terms), seen \cup {Lower(Head(terms))})

extract_verification_terms(claim) ==
    Unique(ProperNouns(claim) \o Numbers(claim) \o Significant(Words(claim), term_stop_words),
           {})

\* Python values that may or may not be a str
PyNone == [type |-> "NoneType", value |-> <<>>]
PyStr(chars) == [type |-> "str", value |-> chars]
\* an int, by its decimal digits
PyInt(digits) == [type |-> "int", value |-> digits]

\* `not x`
Falsy(x) ==
    \/ x.type = "NoneType"
    \/ (x.type = "str" /\ x.value = <<>>)
    \/ (x.type = "int" /\ x.value = <<"0">>)

\* What the HTTP call of search_wikipedia can do
SearchFailures == {"timeout", "connection_error", "http_error", "bad_payload"}

\* search_wikipedia: every failure is caught and gives []
search_wikipedia(outcome) == IF outcome.kind = "ok" THEN outcome.results ELSE <<>>

\* What the HTTP call of get_wikipedia_summary can do; "missing" is the
\* page id -1, "ok" a page whose "extract" is outcome.extract
SummaryFailures == {"timeout", "connection_error", "http_error", "bad_payload"}

\* get_wikipedia_summary: page_data.get("extract", "") as it is, None for a
\* missing page and for every failure
get_wikipedia_summary(outcome) == IF outcome.kind = "ok" THEN outcome.extract ELSE PyNone

\* " " in main_subject
HasSpace(subject) == \E i \in 1..Len(subject) : subject[i] = " "

\* main_subject.split() is empty, so that [0] raises IndexError
NoToken(subject) == Strip(subject) = <<>>

\* main_subject.split()[0]
TokenEnd(s) ==
    CHOOSE e \in 0..Len(s) :
        /\ \A j \in 1..e : s[j] \notin WhiteSpace
        /\ e = Len(s) \/ s[e + 1] \in WhiteSpace
FirstToken(subject) == Take(Strip(subject), TokenEnd(Strip(subject)))

SnippetLen == 500

\* summary[:500] + "..." if len(summary) > 500 else summary
SnippetOf(summary_text) ==
    IF Len(summary_text) > SnippetLen
    THEN Take(summary_text, SnippetLen) \o <<".",".",".">> ELSE summary_text

\* The terms found in the summary, in order
Matches(terms, summary_lower) ==
    SelectSeq(terms, LAMBDA term : Contains(summary_lower, Lower(term)))

\* round(min(0.6 + match_ratio * 0.3, 0.95), 2) in hundredths, for
\* match_count of total_terms terms: 60 + 30 m / t to the nearest integer,
\* a half going to the even one (as the float does for t below 20).
RoundHalfEven(num, den) ==
    IF 2 * (num % den) > den THEN num \div den + 1
    ELSE IF 2 * (num % den) < den THEN num \div den
    ELSE num \div den + ((num \div den) % 2)

Min(a, b) == IF a < b THEN a ELSE b

\* The confidence cut to two decimals instead of rounded
VerifiedConfidence_cut(match_count, total_terms) ==
    Min((60 * total_terms + 30 * match_count) \div total_terms, 95)

VerifiedConfidence(match_count, total_terms) ==
    Min(RoundHalfEven(60 * total_terms + 30 * match_count, total_terms), 95)

WikiResult(status, confidence, reason, source, snippet) ==
    [status |-> status, confidence |-> confidence, reason |-> reason,
     wikipedia_source |-> source, wikipedia_snippet |-> snippet]

NoSubject ==
    WikiResult("UNKNOWN", 30, "Could not extract searchable subject from claim",
               PyNone, PyNone)

NoArticle ==
    WikiResult("UNKNOWN", 30, "No Wikipedia articles found", PyNone, PyNone)

NoContent(title) ==
    WikiResult("UNKNOWN", 40, "Found article but could not retrieve content",
               PyStr(title), PyNone)

\* Step 6: match_ratio >= 0.5, >= 0.25, and below
Decision_contradicting(match_count, total_terms, subject_found, title, snippet) ==
    IF total_terms > 0 /\ 4 * match_count >= total_terms
    THEN WikiResult("VERIFIED", VerifiedConfidence(match_count, total_terms),
                    "Claim supported by Wikipedia article", PyStr(title), PyStr(snippet))
    ELSE WikiResult("CONTRADICTED", 30,
                    "Claim could not be verified against Wikipedia article",
                    PyStr(title), PyStr(snippet))

Decision(match_count, total_terms, subject_found, title, snippet) ==
    IF total_terms > 0 /\ 2 * match_count >= total_terms
    THEN WikiResult("VERIFIED", VerifiedConfidence(match_count, total_terms),
                    "Claim supported by Wikipedia article", PyStr(title), PyStr(snippet))
    ELSE IF total_terms > 0 /\ 4 * match_count >= total_terms
    THEN WikiResult("UNKNOWN", 50, "Partial match in Wikipedia article",
                    PyStr(title), PyStr(snippet))
    ELSE IF subject_found
    THEN WikiResult("UNKNOWN", 40,
                    "Found subject in Wikipedia but claim details could not be verified",
                    PyStr(title), PyStr(snippet))
    ELSE WikiResult("UNKNOWN", 30, "Claim could not be verified against Wikipedia article",
                    PyStr(title), PyStr(snippet))

\* Steps 4 to 6 of check_claim_against_wikipedia
Decide(claim, subject, title, summary_text) ==
    Decision(Len(Matches(extract_verification_terms(claim), Lower(summary_text))),
             Len(extract_verification_terms(claim)),
             Contains(Lower(summary_text), Lower(subject)),
             title, SnippetOf(summary_text))

\* The dict verify_claims_with_wikipedia builds for one claim
VerifiedWikiClaim(claim, wiki_result) ==
    [text |-> claim.text,
     index |-> claim.index,
     status |-> wiki_result.status,
     confidence |-> wiki_result.confidence,
     reason |-> wiki_result.reason,
     has_citation |-> claim.has_citation,
     citation_valid |-> claim.citation_valid,
     wikipedia_source |-> wiki_result.wikipedia_source,
     wikipedia_snippet |-> wiki_result.wikipedia_snippet]

(***************************************************************************)
(* The request texts the model sends: short concatenations of the pieces   *)
(* below, and runs of up to MaxClaims one-status sentences.                *)
(***************************************************************************)
MaxTokens == 2
MaxClaims == 3
LongLen == 520

\* "xxx...x? ": a question longer than the 500-character fallback limit
LongQuestion ==
    [i \in 1..LongLen |-> IF i = LongLen THEN " " ELSE IF i = LongLen - 1 THEN "?" ELSE "x"]

SunIsStar == <<"T","h","e"," ","s","u","n"," ","i","s"," ","a"," ","s","t","a","r","."," ">>
ThisIsMyth == <<"T","h","i","s"," ","i","s"," ","a"," ","m","y","t","h","."," ">>
ParisIsNice == <<"P","a","r","i","s"," ","i","s"," ","n","i","c","e","."," ">>

StatusSentences == {SunIsStar, ThisIsMyth, ParisIsNice}

Vocabulary ==
    { <<" ">>,
      <<"T","h","e"," ","s","u","n"," ","i","s"," ","a"," ","s","t","a","r","."," ">>,
      <<"T","h","e"," ","s","u","n"," ","i","s"," ","a"," ","s","t","a","r"," ","a","n","d"," ","t","h","i","s"," ","i","s"," ","n","e","v","e","r"," ","w","r","o","n","g","."," ">>,
      <<"P","a","r","i","s"," ","i","s"," ","n","i","c","e","."," ">>,
      <<"I","s"," ","t","h","e"," ","s","u","n"," ","h","o","t","?"," ">>,
      <<"M","a","y","b","e"," ","t","h","e"," ","s","u","n"," ","i","s"," ","h","o","t","."," ">>,
      <<"H","i","."," ">>,
      <<"C","a","t","s"," ","(","f","e","l","i","n","e","s",")"," ","s","l","e","e","p"," ","a"," ","l","o","t","."," ">>,
      <<"S","e","e"," ","h","t","t","p","s",":","/","/","w","i","k","i","p","e","d","i","a",".","o","r","g","/","x"," ","a","n","d"," ","[","1","]">>,
      <<"w","w","w",".","x",".","i","o"," ">>,
      <<"h","t","t","p",":","/","/","a",".","b"," ">>,
      <<"h","t","t","p","s",":","/","/","a",".","b","/","[","1","]"," ">>,
      <<"(","S","m","i","t","h"," ","a","n","d"," ","L","e","e",","," ","2","0","2","0",")"," ">>,
      LongQuestion }

RECURSIVE Concat(_)
Concat(pieces) == IF pieces = <<>> THEN <<>> ELSE Head(pieces) \o Concat(Tail(pieces))

PieceSeqs(pieces, n) == UNION {[1..k -> pieces] : k \in 0..n}

Texts ==
    {Concat(ps) : ps \in PieceSeqs(Vocabulary, MaxTokens)}
        \cup {Concat(ps) : ps \in PieceSeqs(StatusSentences, MaxClaims)}

(***************************************************************************)
(* The request, step by step.                                              *)
(***************************************************************************)
Unset == [unset |-> TRUE]

Fresh(text, at) ==
    /\ pc' = at
    /\ request_text' = text
    /\ stages' = <<>>
    /\ extracted_claims' = <<>>
    /\ citation_analysis' = Unset
    /\ claims_with_citations' = <<>>
    /\ verified_claims' = <<>>
    /\ trust_score' = -1
    /\ reliability_label' = ""
    /\ breakdown' = Unset
    /\ response' = NoResponse
    /\ UNCHANGED <<wiki_vars, rng, other_request>>

\* No second request
NoRequest == [pc |-> "none"]

\* The lookup strategy is not running (process calls the static one)
WikiOff ==
    /\ wiki_pc = "off"
    /\ wiki_claims = <<>>
    /\ wiki_verified = <<>>
    /\ main_subject = <<>>
    /\ search_results = <<>>
    /\ summary = PyNone
    /\ search_calls = 0
    /\ failed_searches = 0
    /\ summary_calls = 0
    /\ returned_summary = PyNone

Init ==
    /\ pc = "idle"
    /\ request_text = <<>>
    /\ stages = <<>>
    /\ extracted_claims = <<>>
    /\ citation_analysis = Unset
    /\ claims_with_citations = <<>>
    /\ verified_claims = <<>>
    /\ trust_score = -1
    /\ reliability_label = ""
    /\ breakdown = Unset
    /\ response = NoResponse
    /\ WikiOff
    /\ rng \in RngStates
    /\ other_request = NoRequest

\* POST /verify arrives
Receive ==
    /\ pc = "idle"
    /\ \E text \in Texts : Fresh(text, "validate")

\* The response has been sent; nothing of the request is kept
Reply ==
    /\ pc = "done"
    /\ Fresh(<<>>, "idle")

\* VerifyRequest validation, then the handler's own check
Validate ==
    /\ pc = "validate"
    /\ IF SchemaRejects(request_text)
       THEN /\ response' = [status |-> 422, detail |-> "validation error"]
            /\ pc' = "done"
       ELSE IF HandlerRejects(request_text)
       THEN /\ response' = [status |-> 400, detail |-> "Text cannot be empty"]
            /\ pc' = "done"
       ELSE /\ response' = response
            /\ pc' = "extract_claims"
    /\ UNCHANGED <<request_text, stages, extracted_claims, citation_analysis,
                   claims_with_citations, verified_claims, trust_score,
                   reliability_label, breakdown>>
    /\ UNCHANGED <<wiki_vars, rng, other_request>>

\* Step 1
ExtractClaims ==
    /\ pc = "extract_claims"
    /\ extracted_claims' = extract_claims(request_text)
    /\ stages' = Append(stages, "extract_claims")
    /\ pc' = "analyze_citations"
    /\ UNCHANGED <<request_text, citation_analysis, claims_with_citations,
                   verified_claims, trust_score, reliability_label, breakdown,
                   response>>
    /\ UNCHANGED <<wiki_vars, rng, other_request>>

\* Step 2 calling back into step 1 the first time it runs
AnalyzeCitations_calling_back ==
    /\ pc = "analyze_citations"
    /\ citation_analysis' = analyze_citations(request_text)
    /\ stages' = Append(stages, "analyze_citations")
    /\ pc' = IF citation_analysis = Unset THEN "extract_claims" ELSE "build_claims"
    /\ UNCHANGED <<request_text, extracted_claims, claims_with_citations,
                   verified_claims, trust_score, reliability_label, breakdown,
                   response>>
    /\ UNCHANGED <<wiki_vars, rng, other_request>>

\* Step 2
AnalyzeCitations ==
    /\ pc = "analyze_citations"
    /\ citation_analysis' = analyze_citations(request_text)
    /\ stages' = Append(stages, "analyze_citations")
    /\ pc' = "build_claims"
    /\ UNCHANGED <<request_text, extracted_claims, claims_with_citations,
                   verified_claims, trust_score, reliability_label, breakdown,
                   response>>
    /\ UNCHANGED <<wiki_vars, rng, other_request>>

\* Step 3
BuildClaims ==
    /\ pc = "build_claims"
    /\ claims_with_citations' =
           [i \in 1..Len(extracted_claims) |->
               ClaimWithCitation(extracted_claims[i], i - 1,
                                 build_citation_map(citation_analysis))]
    /\ stages' = Append(stages, "build_claims")
    /\ pc' = IF Len(extracted_claims) = 0 THEN "calculate_trust_score" ELSE "verify_claims"
    /\ UNCHANGED <<request_text, extracted_claims, citation_analysis,
                   verified_claims, trust_score, reliability_label, breakdown,
                   response>>
    /\ UNCHANGED <<wiki_vars, rng, other_request>>

\* Step 4: one turn of the loop of verify_claims
VerifyClaim ==
    /\ pc = "verify_claims"
    /\ LET claim == claims_with_citations[Len(verified_claims) + 1]
           verification == verify_single_claim(claim.text)
       IN verified_claims' =
              Append(verified_claims,
                     VerifiedClaim(claim, verification,
                                   uniform(rng, verification.low, verification.high)))
    /\ rng' = Advanced(rng)
    /\ stages' = Append(stages, "verify_claim")
    /\ pc' = IF Len(verified_claims) + 1 = Len(claims_with_citations)
             THEN "calculate_trust_score" ELSE "verify_claims"
    /\ UNCHANGED <<request_text, extracted_claims, citation_analysis,
                   claims_with_citations, trust_score, reliability_label,
                   breakdown, response>>
    /\ UNCHANGED <<wiki_vars, other_request>>

\* Step 5
CalculateTrustScore ==
    /\ pc = "calculate_trust_score"
    /\ trust_score' = calculate_trust_score(verified_claims)
    /\ stages' = Append(stages, "calculate_trust_score")
    /\ pc' = "get_reliability_label"
    /\ UNCHANGED <<request_text, extracted_claims, citation_analysis,
                   claims_with_citations, verified_claims, reliability_label,
                   breakdown, response>>
    /\ UNCHANGED <<wiki_vars, rng, other_request>>

\* Step 6
GetReliabilityLabel ==
    /\ pc = "get_reliability_label"
    /\ reliability_label' = get_reliability_label(trust_score)
    /\ stages' = Append(stages, "get_reliability_label")
    /\ pc' = "get_score_breakdown"
    /\ UNCHANGED <<request_text, extracted_claims, citation_analysis,
                   claims_with_citations, verified_claims, trust_score,
                   breakdown, response>>
    /\ UNCHANGED <<wiki_vars, rng, other_request>>

\* Step 7
GetScoreBreakdown ==
    /\ pc = "get_score_breakdown"
    /\ breakdown' = get_score_breakdown(verified_claims)
    /\ stages' = Append(stages, "get_score_breakdown")
    /\ pc' = "build_response"
    /\ UNCHANGED <<request_text, extracted_claims, citation_analysis,
                   claims_with_citations, verified_claims, trust_score,
                   reliability_label, response>>
    /\ UNCHANGED <<wiki_vars, rng, other_request>>

\* Steps 8 and 9, and the try/except of verify_content around process_text
BuildResponse ==
    /\ pc = "build_response"
    /\ response' =
           IF ResponseRaises(trust_score, breakdown, verified_claims)
           THEN InternalError(RaisedException(trust_score, breakdown, verified_claims))
           ELSE [status |-> 200,
                 body |-> VerifyResponse(trust_score, reliability_label, breakdown,
                                         verified_claims)]
    /\ stages' = Append(stages, "build_response")
    /\ pc' = "done"
    /\ UNCHANGED <<request_text, extracted_claims, citation_analysis,
                   claims_with_citations, verified_claims, trust_score,
                   reliability_label, breakdown>>
    /\ UNCHANGED <<wiki_vars, rng, other_request>>

Next ==
    \/ Receive
    \/ Validate
    \/ ExtractClaims
    \/ AnalyzeCitations
    \/ BuildClaims
    \/ VerifyClaim
    \/ CalculateTrustScore
    \/ GetReliabilityLabel
    \/ GetScoreBreakdown
    \/ BuildResponse
    \/ Reply

Spec == Init /\ [][Next]_vars

\* verify_content calls process_text and every stage is a plain call that
\* returns, so the program does not stop between two steps, and the response
\* that was built is sent.  Some step of Next is possible in every state, so
\* the second condition is weak fairness of Next, written without ENABLED.
SpecLive == Spec /\ WF_vars(Reply) /\ []<><<Next>>_vars

(***************************************************************************)
(* Two requests at once.  A request's locals are the pipeline variables;   *)
(* those of the request that is not running are kept in other_request,     *)
(* with the state the generator had when it was left.  The generator is    *)
(* the one object of the process both requests use: random.uniform is      *)
(* called on the module, verification_service.py lines 46, 55 and 62.      *)
(***************************************************************************)
Locals ==
    [pc |-> pc,
     request_text |-> request_text,
     stages |-> stages,
     extracted_claims |-> extracted_claims,
     citation_analysis |-> citation_analysis,
     claims_with_citations |-> claims_with_citations,
     verified_claims |-> verified_claims,
     trust_score |-> trust_score,
     reliability_label |-> reliability_label,
     breakdown |-> breakdown,
     response |-> response,
     rng_seen |-> rng]

\* A request just received
Received(text, state) ==
    [pc |-> "validate",
     request_text |-> text,
     stages |-> <<>>,
     extracted_claims |-> <<>>,
     citation_analysis |-> Unset,
     claims_with_citations |-> <<>>,
     verified_claims |-> <<>>,
     trust_score |-> -1,
     reliability_label |-> "",
     breakdown |-> Unset,
     response |-> NoResponse,
     rng_seen |-> state]

ConcurrentTexts ==
    { <<" ">>,
      SunIsStar \o ThisIsMyth,
      ThisIsMyth \o ParisIsNice \o SunIsStar,
      <<"T","h","e"," ","s","u","n"," ","i","s"," ","a"," ","s","t","a","r"," ","(","s","e","e"," ","[","1","]",")","."," ","P","a","r","i","s"," ","i","s"," ","n","i","c","e","."," ">> }

\* Switch with trust_score kept on the orchestrator instead of in the call:
\* the request that goes on finds the score the other one left
Switch_sharing_score ==
    /\ other_request.pc # "none"
    /\ other_request' = Locals
    /\ pc' = other_request.pc
    /\ request_text' = other_request.request_text
    /\ stages' = other_request.stages
    /\ extracted_claims' = other_request.extracted_claims
    /\ citation_analysis' = other_request.citation_analysis
    /\ claims_with_citations' = other_request.claims_with_citations
    /\ verified_claims' = other_request.verified_claims
    /\ reliability_label' = other_request.reliability_label
    /\ breakdown' = other_request.breakdown
    /\ response' = other_request.response
    /\ UNCHANGED <<wiki_vars, rng, trust_score>>

\* The running request is left where it is and the other one goes on
Switch ==
    /\ other_request.pc # "none"
    /\ other_request' = Locals
    /\ pc' = other_request.pc
    /\ request_text' = other_request.request_text
    /\ stages' = other_request.stages
    /\ extracted_claims' = other_request.extracted_claims
    /\ citation_analysis' = other_request.citation_analysis
    /\ claims_with_citations' = other_request.claims_with_citations
    /\ verified_claims' = other_request.verified_claims
    /\ trust_score' = other_request.trust_score
    /\ reliability_label' = other_request.reliability_label
    /\ breakdown' = other_request.breakdown
    /\ response' = other_request.response
    /\ UNCHANGED <<wiki_vars, rng>>

ConcurrentInit ==
    /\ rng \in RngStates
    /\ \E text \in ConcurrentTexts :
          /\ pc = "validate"
          /\ request_text = text
    /\ stages = <<>>
    /\ extracted_claims = <<>>
    /\ citation_analysis = Unset
    /\ claims_with_citations = <<>>
    /\ verified_claims = <<>>
    /\ trust_score = -1
    /\ reliability_label = ""
    /\ breakdown = Unset
    /\ response = NoResponse
    /\ WikiOff
    /\ other_request \in {Received(text, rng) : text \in ConcurrentTexts}

ConcurrentNext ==
    \/ Validate
    \/ ExtractClaims
    \/ AnalyzeCitations
    \/ BuildClaims
    \/ VerifyClaim
    \/ CalculateTrustScore
    \/ GetReliabilityLabel
    \/ GetScoreBreakdown
    \/ BuildResponse
    \/ Switch

SpecConcurrent == ConcurrentInit /\ [][ConcurrentNext]_vars

(***************************************************************************)
(* scoring on its own: calculate_trust_score, the label and                *)
(* get_score_breakdown applied to every short list of claim dicts,         *)
(* whatever their status (one is not a ClaimStatus, one dict has none).    *)
(***************************************************************************)
MaxScoredClaims == 4

ScoredClaim(status) ==
    [text |-> <<"x">>, index |-> 0, status |-> status, confidence |-> 50,
     reason |-> <<"r">>, has_citation |-> FALSE, citation_valid |-> None]

NoStatusClaim ==
    [text |-> <<"x">>, index |-> 0, confidence |-> 50,
     reason |-> <<"r">>, has_citation |-> FALSE, citation_valid |-> None]

ScoredClaims ==
    {ScoredClaim(st) : st \in ClaimStatus \cup {"PENDING", "DISPUTED"}}
        \cup {NoStatusClaim}

ScoreInit ==
    /\ pc = "calculate_trust_score"
    /\ request_text = <<>>
    /\ stages = <<>>
    /\ extracted_claims = <<>>
    /\ citation_analysis = Unset
    /\ claims_with_citations = <<>>
    /\ verified_claims \in PieceSeqs(ScoredClaims, MaxScoredClaims)
    /\ trust_score = -1
    /\ reliability_label = ""
    /\ breakdown = Unset
    /\ response = NoResponse
    /\ WikiOff
    /\ rng \in RngStates
    /\ other_request = NoRequest

ScoreNext ==
    \/ CalculateTrustScore
    \/ GetReliabilityLabel
    \/ GetScoreBreakdown
    \/ BuildResponse

SpecScore == ScoreInit /\ [][ScoreNext]_vars

(***************************************************************************)
(* extract_claims on its own, applied to every text of Texts (the empty    *)
(* and the whitespace-only ones too, which the endpoint never passes on).  *)
(***************************************************************************)
ExtractInit ==
    /\ pc = "extract_claims"
    /\ request_text \in Texts
    /\ stages = <<>>
    /\ extracted_claims = <<>>
    /\ citation_analysis = Unset
    /\ claims_with_citations = <<>>
    /\ verified_claims = <<>>
    /\ trust_score = -1
    /\ reliability_label = ""
    /\ breakdown = Unset
    /\ response = NoResponse
    /\ WikiOff
    /\ rng \in RngStates
    /\ other_request = NoRequest

ExtractNext == ExtractClaims

SpecExtract == ExtractInit /\ [][ExtractNext]_vars

(***************************************************************************)
(* verify_claims_with_wikipedia, claim by claim and call by call.  What    *)
(* the two HTTP calls do is not the program's to choose: every outcome     *)
(* below can follow every call.                                            *)
(***************************************************************************)
MaxWikiClaims == 2

EiffelClaim == <<"T","h","e"," ","E","i","f","f","e","l"," ","T","o","w","e","r"," ","w","a","s"," ","b","u","i","l","t"," ","i","n"," ","1","8","8","9"," ","a","n","d"," ","i","s"," ","l","o","c","a","t","e","d"," ","i","n"," ","P","a","r","i","s",".">>
StarClaim == <<"T","h","e"," ","s","u","n"," ","i","s"," ","a"," ","s","t","a","r",".">>
HotClaim == <<"t","h","e"," ","s","u","n"," ","i","s"," ","h","o","t">>

\* "" is the text of a claim dict that has no "text"
WikiClaimTexts == {EiffelClaim, StarClaim, HotClaim, <<>>}

WikiClaimsOf(texts) ==
    [i \in 1..Len(texts) |->
        [text |-> texts[i], index |-> i - 1, has_citation |-> FALSE,
         citation_valid |-> None]]

EiffelArticle == [title |-> <<"E","i","f","f","e","l"," ","T","o","w","e","r">>, snippet |-> <<"E","i","f","f","e","l"," ","T","o","w","e","r",","," ","P","a","r","i","s">>]
ParisArticle == [title |-> <<"P","a","r","i","s">>, snippet |-> <<>>]

ResultLists == {<<>>, << EiffelArticle, ParisArticle >>, << ParisArticle >>}

SearchOutcomes ==
    {[kind |-> k, results |-> <<>>] : k \in SearchFailures}
        \cup {[kind |-> "ok", results |-> r] : r \in ResultLists}

EiffelSummary ==
    <<"T","h","e"," ","E","i","f","f","e","l"," ","T","o","w","e","r"," ","i","s"," ","a"," ","w","r","o","u","g","h","t","-","i","r","o","n"," ","l","a","t","t","i","c","e"," ","t","o","w","e","r"," ","i","n"," ","P","a","r","i","s",","," ","F","r","a","n","c","e",","," ","b","u","i","l","t"," ","i","n"," ","1","8","8","9",".">>
HotSummary == <<"S","o","m","e"," ","s","a","y"," ","t","h","e"," ","s","u","n"," ","i","s"," ","h","o","t",".">>

\* "extract" of the page: a text, nothing (""), null, or a number
Extracts ==
    {PyStr(EiffelSummary), PyStr(HotSummary), PyStr(<<>>), PyNone, PyInt(<<"4","2">>),
     PyInt(<<"0">>)}

SummaryOutcomes ==
    {[kind |-> k, extract |-> PyNone] : k \in SummaryFailures \cup {"missing"}}
        \cup {[kind |-> "ok", extract |-> e] : e \in Extracts}

CurrentClaim == wiki_claims[Len(wiki_verified) + 1]

\* check_claim_against_wikipedia returns; the loop appends and goes on
Finish(wiki_result) ==
    /\ wiki_verified' = Append(wiki_verified, VerifiedWikiClaim(CurrentClaim, wiki_result))
    /\ wiki_pc' = IF Len(wiki_verified) + 1 = Len(wiki_claims)
                  THEN "returned" ELSE "check_claim"

\* Step 1 for the next claim of the loop
CheckClaim ==
    /\ wiki_pc = "check_claim"
    /\ main_subject' = extract_main_subject(CurrentClaim.text)
    /\ search_results' = <<>>
    /\ summary' = PyNone
    /\ search_calls' = 0
    /\ failed_searches' = 0
    /\ summary_calls' = 0
    /\ returned_summary' = PyNone
    /\ IF main_subject' = <<>>
       THEN Finish(NoSubject)
       ELSE wiki_pc' = "search" /\ UNCHANGED wiki_verified
    /\ UNCHANGED <<wiki_claims, pipeline_vars, rng, other_request>>

Called(outcome) ==
    /\ search_calls' = search_calls + 1
    /\ failed_searches' = failed_searches + (IF outcome.kind = "ok" THEN 0 ELSE 1)
    /\ search_results' = search_wikipedia(outcome)
    /\ UNCHANGED <<wiki_claims, main_subject, summary, summary_calls, returned_summary,
                 pipeline_vars, rng, other_request>>

\* Step 2: search_wikipedia(main_subject)
Search ==
    /\ wiki_pc = "search"
    /\ \E outcome \in SearchOutcomes :
        /\ Called(outcome)
        /\ IF search_results' # <<>>
           THEN wiki_pc' = "summary" /\ UNCHANGED wiki_verified
           ELSE IF ~HasSpace(main_subject)
           THEN Finish(NoArticle)
           ELSE IF NoToken(main_subject)
           THEN wiki_pc' = "raised" /\ UNCHANGED wiki_verified
           ELSE wiki_pc' = "fallback_search" /\ UNCHANGED wiki_verified

\* The second call made again for as long as it finds nothing
FallbackSearch_retrying ==
    /\ wiki_pc = "fallback_search"
    /\ \E outcome \in SearchOutcomes :
        /\ Called(outcome)
        /\ wiki_pc' = IF search_results' # <<>> THEN "summary" ELSE "fallback_search"
        /\ UNCHANGED wiki_verified

\* Step 2, second call: search_wikipedia(fallback)
FallbackSearch ==
    /\ wiki_pc = "fallback_search"
    /\ \E outcome \in SearchOutcomes :
        /\ Called(outcome)
        /\ IF search_results' # <<>>
           THEN wiki_pc' = "summary" /\ UNCHANGED wiki_verified
           ELSE Finish(NoArticle)

\* The summary kept as it was returned, the snippet never looked at
OrSnippet_never(returned, top_result) == returned

\* `if not summary: summary = top_result.get("snippet", "")`
OrSnippet(returned, top_result) ==
    IF Falsy(returned) THEN PyStr(top_result.snippet) ELSE returned

\* Step 3: get_wikipedia_summary(top_result["title"]); a summary that is
\* not a str has no lower(), and nothing catches the AttributeError
GetSummary ==
    /\ wiki_pc = "summary"
    /\ \E outcome \in SummaryOutcomes :
        /\ returned_summary' = get_wikipedia_summary(outcome)
        /\ summary' = OrSnippet(returned_summary', search_results[1])
        /\ summary_calls' = summary_calls + 1
        /\ IF Falsy(summary')
           THEN Finish(NoContent(search_results[1].title))
           ELSE IF summary'.type # "str"
           THEN wiki_pc' = "raised" /\ UNCHANGED wiki_verified
           ELSE wiki_pc' = "decide" /\ UNCHANGED wiki_verified
    /\ UNCHANGED <<wiki_claims, main_subject, search_results, search_calls,
                   failed_searches, pipeline_vars, rng, other_request>>

\* Steps 4 to 6
MatchTerms ==
    /\ wiki_pc = "decide"
    /\ Finish(Decide(CurrentClaim.text, main_subject, search_results[1].title,
                     summary.value))
    /\ UNCHANGED <<wiki_claims, main_subject, search_results, summary, search_calls,
                   failed_searches, summary_calls, returned_summary, pipeline_vars,
                   rng, other_request>>

WikiInit ==
    /\ pc = "idle"
    /\ request_text = <<>>
    /\ stages = <<>>
    /\ extracted_claims = <<>>
    /\ citation_analysis = Unset
    /\ claims_with_citations = <<>>
    /\ verified_claims = <<>>
    /\ trust_score = -1
    /\ reliability_label = ""
    /\ breakdown = Unset
    /\ response = NoResponse
    /\ wiki_claims \in {WikiClaimsOf(texts) : texts \in PieceSeqs(WikiClaimTexts, MaxWikiClaims)}
    /\ wiki_pc = IF wiki_claims = <<>> THEN "returned" ELSE "check_claim"
    /\ wiki_verified = <<>>
    /\ main_subject = <<>>
    /\ search_results = <<>>
    /\ summary = PyNone
    /\ search_calls = 0
    /\ failed_searches = 0
    /\ summary_calls = 0
    /\ returned_summary = PyNone
    /\ rng \in RngStates
    /\ other_request = NoRequest

WikiNext ==
    \/ CheckClaim
    \/ Search
    \/ FallbackSearch
    \/ GetSummary
    \/ MatchTerms

SpecWiki == WikiInit /\ [][WikiNext]_vars

(***************************************************************************)
(* Properties                                                              *)
(***************************************************************************)
Reported == response.status = 200

\* C1: in every report the endpoint returns, verified_count +
\* contradicted_count + unknown_count equals total_claims, and total_claims
\* is the number of claims listed; the counts get_score_breakdown returns
\* add up in the same way for every list of claims.
C1_CountsAddUp ==
    /\ Reported =>
          /\ response.body.verified_count + response.body.contradicted_count
                 + response.body.unknown_count = response.body.total_claims
          /\ response.body.total_claims = Len(response.body.claims)
    /\ breakdown # Unset =>
          /\ breakdown.verified_count + breakdown.contradicted_count
                 + breakdown.unknown_count = breakdown.total_claims
          /\ breakdown.total_claims = Len(verified_claims)

\* A report in which all three statuses occur
C1_Witness ==
    /\ Reported
    /\ response.body.verified_count > 0
    /\ response.body.contradicted_count > 0
    /\ response.body.unknown_count > 0

Scored == trust_score # -1

\* C2: calculate_trust_score returns an integer from 0 to 100 for every
\* list of claims, whatever their statuses, and exactly 50 for the empty list.
C2_ScoreInRange ==
    Scored =>
        /\ trust_score \in 0..100
        /\ (verified_claims = <<>> => trust_score = 50)

\* A list with an unrecognised status scored
C2_Witness ==
    /\ Scored
    /\ verified_claims # <<>>
    /\ \E i \in 1..Len(verified_claims) : StatusOf(verified_claims[i]) = "PENDING"

NumVerified == Cardinality({i \in 1..Len(verified_claims) :
                               StatusOf(verified_claims[i]) = "VERIFIED"})
NumContradicted == Cardinality({i \in 1..Len(verified_claims) :
                                   StatusOf(verified_claims[i]) = "CONTRADICTED"})
NumOther == Len(verified_claims) - NumVerified - NumContradicted

\* C3: for a non-empty list with v VERIFIED, c CONTRADICTED and u other
\* claims the score is floor((100 v + 50 u) / (v + u + c)): 100 when all are
\* VERIFIED, 0 when all are CONTRADICTED, 50 for one of each.
C3_ScoreIsFloorOfAverage ==
    (Scored /\ verified_claims # <<>>) =>
        /\ trust_score = (100 * NumVerified + 50 * NumOther) \div Len(verified_claims)
        /\ (NumVerified = Len(verified_claims) => trust_score = 100)
        /\ (NumContradicted = Len(verified_claims) => trust_score = 0)
        /\ (NumVerified = 1 /\ NumContradicted = 1 /\ NumOther = 0 => trust_score = 50)

\* An average that is not an integer: two VERIFIED, one CONTRADICTED make 66
C3_Witness ==
    /\ Scored
    /\ NumVerified = 2 /\ NumContradicted = 1 /\ NumOther = 0
    /\ trust_score = 66

\* C4: the reliability_label of a report is the band of its trust_score.
C4_LabelIsBandOfScore ==
    Reported =>
        /\ response.body.reliability_label = "HIGHLY_RELIABLE"
               <=> response.body.trust_score >= 80
        /\ response.body.reliability_label = "MOSTLY_RELIABLE"
               <=> (60 <= response.body.trust_score /\ response.body.trust_score < 80)
        /\ response.body.reliability_label = "QUESTIONABLE"
               <=> (40 <= response.body.trust_score /\ response.body.trust_score < 60)
        /\ response.body.reliability_label = "UNRELIABLE"
               <=> response.body.trust_score < 40

\* A report of two VERIFIED claims and a CONTRADICTED one: 66, MOSTLY_RELIABLE
C4_Witness ==
    /\ Reported
    /\ response.body.trust_score = 66
    /\ response.body.reliability_label = "MOSTLY_RELIABLE"

\* Empty, or nothing but whitespace
Blank(text) == \A i \in 1..Len(text) : text[i] \in WhiteSpace

\* C5: a request whose text is empty or only whitespace is answered with a
\* client error, and no stage of the pipeline runs for it.
C5_BlankTextRejected ==
    (pc # "idle" /\ Blank(request_text)) =>
        /\ pc \in {"validate", "done"}
        /\ stages = <<>>
        /\ extracted_claims = <<>>
        /\ citation_analysis = Unset
        /\ verified_claims = <<>>
        /\ trust_score = -1
        /\ (pc = "done" => response.status \in 400..499)

\* A whitespace-only text answered 400
C5_Witness ==
    /\ pc = "done"
    /\ Len(request_text) > 0
    /\ Blank(request_text)
    /\ response.status = 400

Extracted == pc = "analyze_citations"

\* No sentence of the split text passes the filters of the loop
NoSentencePasses(text) ==
    \A i \in 1..Len(SplitSentences(Strip(text))) :
        ~KeepSentence(Strip(SplitSentences(Strip(text))[i]))

\* C6: extract_claims returns the empty list for an empty or whitespace-only
\* text, and for any other text none of whose sentences passes the filters
\* it returns one claim, the first 500 characters of the trimmed text.
C6_FallbackClaim ==
    Extracted =>
        IF Blank(request_text) THEN extracted_claims = <<>>
        ELSE NoSentencePasses(request_text) =>
                /\ Len(extracted_claims) = 1
                /\ extracted_claims[1] = Take(Strip(request_text), FallbackLen)
                /\ Len(extracted_claims[1]) <= FallbackLen

\* A text longer than 500 characters with no passing sentence, cut to 500
C6_Witness ==
    /\ Extracted
    /\ Len(Strip(request_text)) > FallbackLen
    /\ NoSentencePasses(request_text)
    /\ Len(extracted_claims) = 1
    /\ Len(extracted_claims[1]) = FallbackLen

HasContradictionKeyword(text) ==
    \E k \in 1..Len(CONTRADICTION_KEYWORDS) : Contains(Lower(text), CONTRADICTION_KEYWORDS[k])

HasFactKey(text) ==
    \E k \in 1..Len(MOCK_KNOWLEDGE_BASE) : Contains(Lower(text), MOCK_KNOWLEDGE_BASE[k])

\* C7: the static strategy gives CONTRADICTED to every claim that contains a
\* contradiction keyword, also when it contains a fact-table key; VERIFIED
\* to a claim with a fact-table key and no contradiction keyword; UNKNOWN
\* to the rest.
C7_ContradictionFirst ==
    pc = "calculate_trust_score" =>
      \A i \in 1..Len(verified_claims) :
        verified_claims[i].status =
            IF HasContradictionKeyword(verified_claims[i].text) THEN "CONTRADICTED"
            ELSE IF HasFactKey(verified_claims[i].text) THEN "VERIFIED"
            ELSE "UNKNOWN"

\* "The sun is a star and this is never wrong." verified as CONTRADICTED
C7_Witness ==
    pc = "calculate_trust_score" /\ \E i \in 1..Len(verified_claims) :
        /\ Contains(Lower(verified_claims[i].text), <<"n","e","v","e","r">>)
        /\ Contains(Lower(verified_claims[i].text), <<"s","u","n">>)
        /\ verified_claims[i].status = "CONTRADICTED"

\* analyze_citations has just returned
Analysed == pc = "build_claims"

NumCitations == Len(citation_analysis.citations)
NumValid == Cardinality({i \in 1..NumCitations : citation_analysis.citations[i].is_valid})

ExampleText == <<"S","e","e"," ","h","t","t","p","s",":","/","/","w","i","k","i","p","e","d","i","a",".","o","r","g","/","x"," ","a","n","d"," ","[","1","]">>

\* C10: with no citation the citation score is 50 and the label
\* NO_CITATIONS; otherwise the score is floor(40 + 60 valid / count), from 40
\* to 100, and the label WELL_CITED from a ratio of 0.8, PARTIALLY_CITED from
\* 0.5, POORLY_CITED below; "See https://wikipedia.org/x and [1]" has one
\* valid url and one valid reference, scores 100 and is WELL_CITED.
C10_CitationScore ==
    Analysed =>
        /\ citation_analysis.citation_count = NumCitations
        /\ citation_analysis.valid_count = NumValid
        /\ NumValid <= NumCitations
        /\ NumCitations = 0 =>
              /\ citation_analysis.citation_score = 50
              /\ citation_analysis.quality_label = "NO_CITATIONS"
        /\ NumCitations > 0 =>
              /\ citation_analysis.citation_score
                     = (40 * NumCitations + 60 * NumValid) \div NumCitations
              /\ citation_analysis.citation_score \in 40..100
              /\ citation_analysis.quality_label =
                     IF 10 * NumValid >= 8 * NumCitations THEN "WELL_CITED"
                     ELSE IF 10 * NumValid >= 5 * NumCitations THEN "PARTIALLY_CITED"
                     ELSE "POORLY_CITED"
              /\ NumValid = NumCitations =>
                     /\ citation_analysis.citation_score = 100
                     /\ citation_analysis.quality_label = "WELL_CITED"
        /\ request_text = ExampleText =>
              /\ NumCitations = 2
              /\ citation_analysis.citations[1].type = "url"
              /\ citation_analysis.citations[1].is_valid
              /\ citation_analysis.citations[2].type = "reference"
              /\ citation_analysis.citations[2].is_valid
              /\ citation_analysis.citation_score = 100
              /\ citation_analysis.quality_label = "WELL_CITED"

\* A text with some but not all of its citations valid
C10_Witness ==
    /\ Analysed
    /\ NumValid > 0
    /\ NumValid < NumCitations
    /\ citation_analysis.quality_label = "PARTIALLY_CITED"

\* The claims check_claim_against_wikipedia has returned for
Checked == 1..Len(wiki_verified)

\* C8: whatever the search and summary calls do, the lookup strategy gives
\* every claim the status VERIFIED or UNKNOWN, never CONTRADICTED.
C8_NeverContradicted ==
    \A i \in Checked : wiki_verified[i].status \in {"VERIFIED", "UNKNOWN"}

\* All claims checked, one supported by the article found and one for which
\* the article found has none of its terms
C8_Witness ==
    /\ wiki_pc = "returned"
    /\ \E i \in Checked : wiki_verified[i].status = "VERIFIED"
    /\ \E i \in Checked :
          /\ wiki_verified[i].status = "UNKNOWN"
          /\ wiki_verified[i].reason = "Claim could not be verified against Wikipedia article"

\* check_claim_against_wikipedia has just returned for a claim all of whose
\* search calls failed
SearchesAllFailed ==
    /\ wiki_pc \in {"check_claim", "returned"}
    /\ wiki_verified # <<>>
    /\ search_calls > 0
    /\ failed_searches = search_calls

\* C9: no exception leaves check_claim_against_wikipedia, whatever the
\* lookup calls do (timeout, transport error, HTTP error status, unexpected
\* payload), and a claim whose searches all fail ends UNKNOWN with
\* confidence 0.3.
C9_FailuresAbsorbed ==
    /\ wiki_pc # "raised"
    /\ SearchesAllFailed =>
          /\ wiki_verified[Len(wiki_verified)].status = "UNKNOWN"
          /\ wiki_verified[Len(wiki_verified)].confidence = 30

\* check_claim_against_wikipedia has just extracted the subject of a claim
SubjectExtracted == wiki_pc = "search"

\* The capitalized-word runs of the claim that are not, as a whole, a stop word
KeptRuns(text) ==
    SelectSeq(ProperNouns(text), LAMBDA pn : Lower(pn) \notin subject_stop_words)

\* C11 as the code has it: the main subject is the first capitalized-word
\* run whose whole lowercased text is not a stop word.  A capitalized stop
\* word standing alone is passed over, one that starts a longer run stays in
\* it: for "The Eiffel Tower was built in 1889 and is located in Paris." the
\* main subject is "The Eiffel Tower".
C11_FirstKeptRun ==
    SubjectExtracted =>
        /\ KeptRuns(CurrentClaim.text) # <<>> =>
              /\ main_subject = KeptRuns(CurrentClaim.text)[1]
              /\ Contains(CurrentClaim.text, main_subject)
              /\ Lower(main_subject) \notin subject_stop_words
        /\ CurrentClaim.text = EiffelClaim => main_subject = <<"T","h","e"," ","E","i","f","f","e","l"," ","T","o","w","e","r">>
        /\ CurrentClaim.text = StarClaim => main_subject = <<"s","t","a","r">>

\* The subject of the Eiffel Tower claim extracted
C11_Witness ==
    /\ SubjectExtracted
    /\ CurrentClaim.text = EiffelClaim
    /\ main_subject = <<"T","h","e"," ","E","i","f","f","e","l"," ","T","o","w","e","r">>

\* C11 as stated: a sentence-initial "The" is excluded from the result, the
\* main subject of the Eiffel Tower claim being exactly "Eiffel Tower".
C11_ArticleExcluded ==
    (SubjectExtracted /\ CurrentClaim.text = EiffelClaim) =>
        main_subject = <<"E","i","f","f","e","l"," ","T","o","w","e","r">>

\* C12: the claims of a report are the strings extract_claims returns for the
\* text, one entry each and in that order, total_claims is their number, and
\* the i-th claim verified is the i-th extracted with index i (from 0).
C12_ClaimsInExtractionOrder ==
    /\ \A i \in 1..Len(verified_claims) :
          /\ i <= Len(extracted_claims)
          /\ verified_claims[i].text = extracted_claims[i]
          /\ verified_claims[i].index = i - 1
    /\ Reported =>
          /\ Len(response.body.claims) = Len(extract_claims(request_text))
          /\ response.body.total_claims = Len(response.body.claims)
          /\ Len(verified_claims) = Len(response.body.claims)
          /\ \A i \in 1..Len(response.body.claims) :
                response.body.claims[i].claim_text = extract_claims(request_text)[i]

\* A report of three different claims
C12_Witness ==
    /\ Reported
    /\ Len(response.body.claims) = 3
    /\ response.body.claims[1].claim_text # response.body.claims[2].claim_text
    /\ response.body.claims[2].claim_text # response.body.claims[3].claim_text
    /\ response.body.claims[1].claim_text # response.body.claims[3].claim_text

\* C13 as the code has it: for each claim the summary call is made at most
\* once and the search call at most twice; the second search is made only
\* when the first found nothing and the main subject has a space in it, and
\* it asks for the first word of the subject, not for the subject again.
C13_OneFallbackSearch ==
    /\ search_calls <= 2
    /\ summary_calls <= 1
    /\ wiki_pc = "fallback_search" => (search_calls = 1 /\ search_results = <<>>)
    /\ search_calls = 2 =>
          /\ HasSpace(main_subject)
          /\ FirstToken(main_subject) # main_subject
    /\ summary_calls = 1 => search_results # <<>>

\* A claim checked with two search calls and the summary call
C13_Witness ==
    /\ wiki_pc \in {"check_claim", "returned"}
    /\ search_calls = 2
    /\ summary_calls = 1

\* C13 as stated: the search call and the summary call are each made at most
\* once per claim.
C13_SingleAttempt == search_calls <= 1 /\ summary_calls <= 1

\* The request has been answered with a server error
Failed == pc = "done" /\ response.status = 500

\* The exception process_text raises for a list of verified claims
ExceptionOf(claims) ==
    RaisedException(calculate_trust_score(claims), get_score_breakdown(claims), claims)

\* The lists of verified claims for which process_text raises
FailingLists ==
    {claims \in PieceSeqs(ScoredClaims, MaxScoredClaims) :
        ResponseRaises(calculate_trust_score(claims), get_score_breakdown(claims), claims)}

Orders(n) ==
    {p \in [1..n -> 1..n] : \A i, j \in 1..n : p[i] = p[j] => i = j}

Permuted(claims, p) == [i \in 1..Len(claims) |-> claims[p[i]]]

\* The same statuses with every other field of the claims changed
Redrawn(claims) ==
    [i \in 1..Len(claims) |->
        [claims[i] EXCEPT !.confidence = 100 - @, !.reason = <<>>, !.text = <<>>,
                          !.has_citation = ~@, !.citation_valid = None]]

\* The statuses the static strategy gives the claims of a text, nothing else
StatusesOf(text) ==
    [i \in 1..Len(extract_claims(text)) |->
        [status |-> verify_single_claim(extract_claims(text)[i]).status]]

SameOutcome(claims) ==
    /\ calculate_trust_score(claims) = trust_score
    /\ get_reliability_label(calculate_trust_score(claims)) = reliability_label
    /\ get_score_breakdown(claims) = breakdown

\* C15: once score, label and counts are computed they are those of every
\* reordering of the verified claims, of the same claims with other
\* confidences, reasons, texts and citation fields, and of the bare statuses
\* the static strategy gives the text: whatever confidences were drawn.
C15_StatusesDecide ==
    breakdown # Unset =>
        /\ \A p \in Orders(Len(verified_claims)) :
              SameOutcome(Permuted(verified_claims, p))
        /\ SameOutcome(Redrawn(verified_claims))
        /\ SameOutcome(StatusesOf(request_text))

\* Three claims of three statuses scored, drawn with different confidences
C15_Witness ==
    /\ breakdown # Unset
    /\ breakdown.verified_count = 1
    /\ breakdown.contradicted_count = 1
    /\ breakdown.unknown_count = 1
    /\ verified_claims[1].confidence # verified_claims[2].confidence

\* What scoring and report assembly need of a strategy's result for a list
\* of claims: one item per claim in the same order, each with a status, a
\* confidence from 0 to 1 and a reason, the claim's own fields as they were
SameShape(result, claims) ==
    /\ Len(result) = Len(claims)
    /\ \A i \in 1..Len(claims) :
          /\ result[i].status \in ClaimStatus
          /\ result[i].confidence \in 0..100
          /\ result[i].reason # ""
          /\ result[i].text = claims[i].text
          /\ result[i].index = claims[i].index
          /\ result[i].has_citation = claims[i].has_citation
          /\ result[i].citation_valid = claims[i].citation_valid

\* C16: for every claim list each strategy returns a list of that shape:
\* verify_claims when its loop is over, verify_claims_with_wikipedia when its
\* loop is over, which it always comes to.
C16_StrategiesInterchangeable ==
    /\ pc = "calculate_trust_score" => SameShape(verified_claims, claims_with_citations)
    /\ wiki_pc = "returned" => SameShape(wiki_verified, wiki_claims)
    /\ wiki_pc # "raised"

\* What the static pipeline lists for the claims of a text, confidences and
\* reasons left out
ListedAlone(claims, citation_map) ==
    [i \in 1..Len(claims) |->
        [claim_text |-> claims[i],
         status |-> verify_single_claim(claims[i]).status,
         has_citation |-> claim_has_citation(claims[i], citation_map)]]

Listed(results) ==
    [i \in 1..Len(results) |->
        [claim_text |-> results[i].claim_text,
         status |-> results[i].status,
         has_citation |-> results[i].has_citation]]

\* The answer is the one the text gets from a request running alone
AsAlone(answer, text) ==
    IF SchemaRejects(text) THEN answer = [status |-> 422, detail |-> "validation error"]
    ELSE IF HandlerRejects(text)
    THEN answer = [status |-> 400, detail |-> "Text cannot be empty"]
    ELSE /\ answer.status = 200
         /\ answer.body.trust_score = calculate_trust_score(StatusesOf(text))
         /\ answer.body.reliability_label =
                get_reliability_label(calculate_trust_score(StatusesOf(text)))
         /\ answer.body.total_claims = get_score_breakdown(StatusesOf(text)).total_claims
         /\ answer.body.verified_count =
                get_score_breakdown(StatusesOf(text)).verified_count
         /\ answer.body.contradicted_count =
                get_score_breakdown(StatusesOf(text)).contradicted_count
         /\ answer.body.unknown_count =
                get_score_breakdown(StatusesOf(text)).unknown_count
         /\ Listed(answer.body.claims) =
                ListedAlone(extract_claims(text),
                            build_citation_map(analyze_citations(text)))

\* Every confidence listed is an end of the range of its claim: a value some
\* state of the generator gives a request running alone
ConfidencesDrawn(answer) ==
    answer.status = 200 =>
        \A i \in 1..Len(answer.body.claims) :
            \E state \in RngStates :
                answer.body.claims[i].confidence =
                    uniform(state,
                            verify_single_claim(answer.body.claims[i].claim_text).low,
                            verify_single_claim(answer.body.claims[i].claim_text).high)

\* C17: of two requests interleaved step by step, each gets the trust_score,
\* reliability_label, counts and per-claim text, status and has_citation it
\* gets alone, and confidences that a run alone can draw; the state of the
\* random generator is the one thing a request finds changed by the other.
C17_ReportAsAlone ==
    /\ pc = "done" =>
          AsAlone(response, request_text) /\ ConfidencesDrawn(response)
    /\ other_request.pc = "done" =>
          /\ AsAlone(other_request.response, other_request.request_text)
          /\ ConfidencesDrawn(other_request.response)

\* Both requests reported, the running one with its first two confidences
\* drawn in the same state of the generator, which no run alone does: the
\* other request drew in between
C17_Witness ==
    /\ pc = "done" /\ Reported
    /\ other_request.pc = "done" /\ other_request.response.status = 200
    /\ Len(verified_claims) >= 2
    /\ verified_claims[1].confidence = verify_single_claim(verified_claims[1].text).low
    /\ verified_claims[2].confidence = verify_single_claim(verified_claims[2].text).low
    /\ request_text # other_request.request_text

\* C17 as stated: each report is the one of a run alone, and the request
\* that is not running finds every variable it uses as it left it
C17_NothingShared ==
    /\ C17_ReportAsAlone
    /\ other_request.pc # "none" => other_request.rng_seen = rng

\* The stages of an accepted request of n claims, in the order of process
StagesOf(n) ==
    << "extract_claims", "analyze_citations", "build_claims" >>
        \o [i \in 1..n |-> "verify_claim"]
        \o << "calculate_trust_score", "get_reliability_label",
              "get_score_breakdown", "build_response" >>

IsPrefix(s, t) == Len(s) <= Len(t) /\ \A i \in 1..Len(s) : s[i] = t[i]

\* The stages run so far are the first stages of the fixed order; citations
\* were analysed over the whole text; the claims verified so far are the
\* first extracted ones, in index order; there is a response exactly when
\* the request has ended, a report only after every stage
OneWay ==
    /\ IsPrefix(stages, StagesOf(Len(extracted_claims)))
    /\ citation_analysis # Unset => citation_analysis = analyze_citations(request_text)
    /\ Len(verified_claims) <= Len(extracted_claims)
    /\ \A i \in 1..Len(verified_claims) :
          /\ verified_claims[i].index = i - 1
          /\ verified_claims[i].text = extracted_claims[i]
    /\ (response # NoResponse) <=> (pc = "done")
    /\ pc = "done" =>
          IF SchemaRejects(request_text) \/ HandlerRejects(request_text)
          THEN stages = <<>> /\ response.status \in {400, 422}
          ELSE stages = StagesOf(Len(extracted_claims)) /\ response.status \in {200, 500}

\* A step runs the one next stage, or sends the response that was built
OneStage ==
    \/ /\ pc # "done"
       /\ IsPrefix(stages, stages')
       /\ Len(stages') <= Len(stages) + 1
       /\ response # NoResponse => response' = response
    \/ pc = "done" /\ pc' = "idle" /\ response' = NoResponse

\* C18: a request runs extract_claims, analyze_citations (once, over the
\* whole text), build_claims, verify_claim for each claim in index order,
\* calculate_trust_score, get_reliability_label, get_score_breakdown and
\* build_response in this order, one stage per step and none twice; a
\* rejected request runs none; and every request received ends with one
\* response, a report or an error.
C18_OneWayToOneResponse ==
    /\ []OneWay
    /\ [][OneStage]_vars
    /\ (pc = "validate") ~> (pc = "done" /\ response # NoResponse)

\* A report sent after the eleven stages of a text of three claims
C18_Witness ==
    /\ pc = "done" /\ Reported
    /\ Len(extracted_claims) = 3
    /\ stages = StagesOf(3)

Built == pc \in {"verify_claims", "calculate_trust_score", "get_reliability_label",
                 "get_score_breakdown", "build_response"}
             \/ (pc = "done" /\ Reported)

HasMarker(claim_text) ==
    \E marker \in { <<"[">>, <<"(">>, <<"h","t","t","p">>, <<"w","w","w">>, <<"a","c","c","o","r","d","i","n","g"," ","t","o">>, <<"s","o","u","r","c","e",":">> } :
        Contains(Lower(claim_text), marker)

\* has_citation and citation_valid are those the claim states
FlagsOf(claim) ==
    /\ claim.has_citation <=> (NumCitations > 0 /\ HasMarker(claim.text))
    /\ claim.citation_valid =
           IF claim.has_citation THEN (IF NumValid > 0 THEN "True" ELSE "False")
           ELSE None
    /\ (claim.citation_valid # None) <=> claim.has_citation

\* C19: every claim the Orchestrator builds has has_citation true exactly
\* when the whole text holds a citation and the lowercased claim holds one
\* of the six markers; its citation_valid is the text-wide valid_count > 0
\* when has_citation is true and None otherwise.  The flags stay so through
\* verification, and the report lists the same has_citation.
C19_CitationFlags ==
    Built =>
        /\ Len(claims_with_citations) = Len(extracted_claims)
        /\ \A i \in 1..Len(claims_with_citations) :
              /\ claims_with_citations[i].text = extracted_claims[i]
              /\ FlagsOf(claims_with_citations[i])
        /\ \A i \in 1..Len(verified_claims) :
              /\ verified_claims[i].has_citation = claims_with_citations[i].has_citation
              /\ verified_claims[i].citation_valid = claims_with_citations[i].citation_valid
        /\ Reported =>
              \A i \in 1..Len(response.body.claims) :
                  response.body.claims[i].has_citation
                      = claims_with_citations[i].has_citation

\* A text with a valid citation and two claims: one with a marker, cited
\* and valid, and one without, not cited and None
C19_Witness ==
    /\ Built
    /\ NumValid > 0
    /\ \E i, j \in 1..Len(claims_with_citations) :
          /\ claims_with_citations[i].has_citation
          /\ claims_with_citations[i].citation_valid = "True"
          /\ ~claims_with_citations[j].has_citation
          /\ claims_with_citations[j].citation_valid = None

\* check_claim_against_wikipedia has just decided from an evidence text
Decided ==
    /\ wiki_pc \in {"check_claim", "returned"}
    /\ wiki_verified # <<>>
    /\ summary.type = "str"
    /\ summary.value # <<>>

DecidedClaim == wiki_claims[Len(wiki_verified)].text
LastResult == wiki_verified[Len(wiki_verified)]

\* How many of the terms occur in the evidence, whatever the case
NumMatched(terms, evidence) ==
    Cardinality({i \in 1..Len(terms) : Contains(Lower(evidence), Lower(terms[i]))})

Abs(x) == IF x < 0 THEN -x ELSE x

\* The result is the one of m matched terms out of t, confidences in
\* hundredths: 60 + 30 m / t to the nearest hundredth when m / t >= 1/2
DecidedBy(result, m, t, subject_found) ==
    /\ 0 <= m /\ m <= t
    /\ IF t > 0 /\ 2 * m >= t
       THEN /\ result.status = "VERIFIED"
            /\ 2 * Abs(result.confidence * t - (60 * t + 30 * m)) <= t
            /\ result.confidence <= 95
       ELSE IF t > 0 /\ 4 * m >= t
       THEN result.status = "UNKNOWN" /\ result.confidence = 50
       ELSE /\ result.status = "UNKNOWN"
            /\ result.confidence = IF subject_found THEN 40 ELSE 30

\* C20: with an evidence text, and m of the t verification terms of the
\* claim occurring in it (m / t taken as 0 when t = 0, and always between 0
\* and 1): m / t >= 0.5 gives VERIFIED with min(0.6 + 0.3 m / t, 0.95)
\* rounded to two decimals; 0.25 <= m / t < 0.5 gives UNKNOWN with 0.5; below
\* that UNKNOWN with 0.4 if the main subject occurs in the evidence, whatever
\* the case, and 0.3 otherwise.
C20_DecidedByMatchRatio ==
    Decided =>
        DecidedBy(LastResult,
                  NumMatched(extract_verification_terms(DecidedClaim), summary.value),
                  Len(extract_verification_terms(DecidedClaim)),
                  Contains(Lower(summary.value), Lower(main_subject)))

\* Six of the seven terms of the Eiffel Tower claim occur in the evidence:
\* VERIFIED with 0.86
C20_Witness ==
    /\ Decided
    /\ DecidedClaim = EiffelClaim
    /\ Len(extract_verification_terms(DecidedClaim)) = 7
    /\ NumMatched(extract_verification_terms(DecidedClaim), summary.value) = 6
    /\ LastResult.status = "VERIFIED"
    /\ LastResult.confidence = 86

\* C20 as stated: the confidence of VERIFIED is min(0.6 + 0.3 m / t, 0.95)
\* itself
ExactlyBy(result, m, t) ==
    (t > 0 /\ 2 * m >= t) =>
        result.confidence * t = Min(60 * t + 30 * m, 95 * t)

C20_UnroundedConfidence ==
    Decided =>
        /\ C20_DecidedByMatchRatio
        /\ ExactlyBy(LastResult,
                     NumMatched(extract_verification_terms(DecidedClaim), summary.value),
                     Len(extract_verification_terms(DecidedClaim)))

\* The summary call gave nothing to read: None, "" or 0
Unavailable(returned) ==
    returned \in {PyNone, PyStr(<<>>), PyInt(<<"0">>)}

\* The claim just checked got UNKNOWN, 0.4 and the title as its source
AnsweredWithoutContent(title) ==
    /\ wiki_pc \in {"check_claim", "returned"}
    /\ wiki_verified # <<>>
    /\ wiki_verified[Len(wiki_verified)].status = "UNKNOWN"
    /\ wiki_verified[Len(wiki_verified)].confidence = 40
    /\ wiki_verified[Len(wiki_verified)].wikipedia_source = PyStr(title)
    /\ wiki_verified[Len(wiki_verified)].wikipedia_snippet = PyNone

\* What holds of the evidence once the summary of top_result was asked for
EvidenceFrom(returned, top_result) ==
    IF ~Unavailable(returned)
    THEN summary = returned /\ ~AnsweredWithoutContent(top_result.title)
    ELSE IF top_result.snippet # <<>>
    THEN summary = PyStr(top_result.snippet) /\ ~AnsweredWithoutContent(top_result.title)
    ELSE AnsweredWithoutContent(top_result.title)

\* C21: the summary call is made only after a search returned results, and
\* once for the top result; the evidence is then what the call returned, the
\* snippet of the top result when it returned nothing to read, and when the
\* snippet is empty too the claim gets UNKNOWN with confidence 0.4 and the
\* title of the top result as its source.
C21_SummaryThenSnippet ==
    /\ search_results = <<>> => summary_calls = 0 /\ summary = PyNone
    /\ summary_calls > 0 =>
          /\ search_results # <<>>
          /\ EvidenceFrom(returned_summary, search_results[1])

\* The summary call failed and the snippet of the top result is the
\* evidence the terms are matched against
C21_Witness ==
    /\ summary_calls = 1
    /\ returned_summary = PyNone
    /\ search_results[1] = EiffelArticle
    /\ summary = PyStr(EiffelArticle.snippet)
    /\ wiki_pc = "decide"

\* The spans of the text the three scans report, as <<first, last>>
UrlSpans(t) == FindAll(UrlEnds(t))
ReferenceSpans(t) ==
    SelectSeq(FindAll(BracketEnds(t)),
              LAMBDA sp : ~LooksLikeUrl(SubSeq(t, sp[1] + 1, sp[2] - 1)))
AcademicSpans(t) == FindAll(AcademicEnds(t))

\* No span of the one list shares a character with a span of the other
Disjoint(spans, others) ==
    \A i \in 1..Len(spans) : \A j \in 1..Len(others) :
        spans[i][2] < others[j][1] \/ others[j][2] < spans[i][1]

\* Every character of a reported citation counts once: citation_count is
\* the number of spans and no two spans of different types meet
CountedOnce(t, count) ==
    /\ count = Len(UrlSpans(t)) + Len(ReferenceSpans(t)) + Len(AcademicSpans(t))
    /\ Disjoint(UrlSpans(t), ReferenceSpans(t))
    /\ Disjoint(UrlSpans(t), AcademicSpans(t))
    /\ Disjoint(ReferenceSpans(t), AcademicSpans(t))

\* C22: in every text analysed, no character belongs to two citations
\* reported with different types, so that citation_count counts no part of
\* the text twice.
C22_ScansDisjoint ==
    citation_analysis # Unset =>
        CountedOnce(request_text, citation_analysis.citation_count)

\* A candidate sentence ends at b: the end of the text, or '.', '!' or '?'
\* with whitespace after it
EndsAt(t, b) ==
    b = Len(t) \/ (t[b] \in {".", "!", "?"} /\ t[b + 1] \in WhiteSpace)

\* A candidate sentence starts at a: the start of the text, or the first
\* character after the whitespace that follows such an end
StartsAt(t, a) ==
    \/ a = 1
    \/ /\ t[a] \notin WhiteSpace
       /\ t[a - 1] \in WhiteSpace
       /\ \E b \in 1..(a - 2) :
             /\ EndsAt(t, b)
             /\ \A k \in (b + 1)..(a - 1) : t[k] \in WhiteSpace

\* The candidate sentences of a trimmed text, each by its first index
CandidateStarts(t) == {a \in 1..Len(t) : StartsAt(t, a)}
CandidateAt(t, a) == SubSeq(t, a, MinOf({b \in a..Len(t) : EndsAt(t, b)}))

HasPhrase(s, phrases) == \E p \in phrases : Contains(Lower(s), p)

\* What the claim asks of a candidate sentence
Qualifies(s) ==
    /\ Len(s) >= 10
    /\ s[Len(s)] # "?"
    /\ ~HasPhrase(s, { <<"i"," ","t","h","i","n","k">>, <<"i"," ","b","e","l","i","e","v","e">>, <<"i","n"," ","m","y"," ","o","p","i","n","i","o","n">>, <<"m","a","y","b","e">>, <<"p","e","r","h","a","p","s">> })
    /\ \/ \E i \in 1..Len(s) : s[i] \in {"0", "1", "2", "3", "4", "5", "6", "7", "8", "9"}
       \/ HasPhrase(s, { <<"i","s">>, <<"a","r","e">>, <<"w","a","s">>, <<"w","e","r","e">>, <<"h","a","s">>, <<"h","a","v","e">>, <<"h","a","d">>,
                         <<"p","e","r","c","e","n","t">>, <<"%">>, <<"m","i","l","l","i","o","n">>, <<"b","i","l","l","i","o","n">>, <<"y","e","a","r">>,
                         <<"f","o","u","n","d","e","d">>, <<"l","o","c","a","t","e","d">>, <<"d","i","s","c","o","v","e","r","e","d">>, <<"i","n","v","e","n","t","e","d">>,
                         <<"c","r","e","a","t","e","d">>, <<"p","u","b","l","i","s","h","e","d">> })
       \/ Len(s) > 30

QualifyingStarts(t) == {a \in CandidateStarts(t) : Qualifies(CandidateAt(t, a))}

\* The claims are the candidates that start at the given indices, in the
\* order of the text
ListedInOrder(claims, t, starts) ==
    /\ Len(claims) = Cardinality(starts)
    /\ \A a \in starts :
          claims[Cardinality({x \in starts : x <= a})] = CandidateAt(t, a)

\* C23: for a text that is not blank, extract_claims returns the candidate
\* sentences of the trimmed text (cut after each '.', '!' or '?' that
\* whitespace follows) that have at least 10 characters, do not end with
\* '?', hold no opinion marker and hold a digit, a factual indicator or more
\* than 30 characters, in the order of the text; it returns the first 500
\* characters of the trimmed text only when there is no such sentence.
C23_QualifyingSentences ==
    (Extracted /\ ~Blank(request_text)) =>
        IF QualifyingStarts(Strip(request_text)) = {}
        THEN extracted_claims = << Take(Strip(request_text), 500) >>
        ELSE ListedInOrder(extracted_claims, Strip(request_text),
                           QualifyingStarts(Strip(request_text)))

\* Two candidate sentences, one of them returned: the question was left out
C23_Witness ==
    /\ Extracted
    /\ request_text = <<"I","s"," ","t","h","e"," ","s","u","n"," ","h","o","t","?"," ","T","h","e"," ","s","u","n"," ","i","s"," ","a"," ","s","t","a","r","."," ">>
    /\ Cardinality(CandidateStarts(Strip(request_text))) = 2
    /\ extracted_claims = << <<"T","h","e"," ","s","u","n"," ","i","s"," ","a"," ","s","t","a","r",".">> >>

====
